---- MODULE Spec2Model ----
(***************************************************************************)
(* A model of the threema-rs client session (src/src/lib.rs): the          *)
(* handshake, the framed transport with its two nonce counters, the peer   *)
(* key cache and the end-to-end message layer, with the byte layout of the *)
(* packets (src/src/packets.rs) and of the flat codec.                     *)
(*                                                                         *)
(* lib.rs names the Packet variants OutgoingMessage, IncomingMessage,      *)
(* OutgoingMessageAck, IncomingMessageAck and QueueSendComplete; they are  *)
(* the variants packets.rs declares as ClientToServer (1), ServerToClient  *)
(* (2), ServerAck (0x81), ClientAck (0x82) and ConnectionEstablished       *)
(* (0xd0).                                                                 *)
(***************************************************************************)
EXTENDS Integers, Sequences, FiniteSets, TLC

(***************************************************************************)
(* Bounds of the model.                                                    *)
(***************************************************************************)
\* connect() calls in one behaviour
MaxConnects == 2
\* the nonce counters stay at or below this value (guards of the actions)
MaxCounter == 5

(***************************************************************************)
(* Option<T>: None is the empty sequence, Some(x) the sequence <<x>>.      *)
(***************************************************************************)
None == << >>
Some(x) == << x >>
IsSome(o) == Len(o) = 1
IsNone(o) == Len(o) = 0
Unwrap(o) == o[1]

(***************************************************************************)
(* Bytes and little-endian integers (to_le_bytes / from_le_bytes).         *)
(***************************************************************************)
Rep(n, b) == [i \in 1..n |-> b]

\* the k low bytes of n, least significant first
RECURSIVE LEBytes(_, _)
LEBytes(n, k) == IF k = 0 THEN << >> ELSE << n % 256 >> \o LEBytes(n \div 256, k - 1)

U32LE(n) == LEBytes(n, 4)
U64LE(n) == LEBytes(n, 8)

RECURSIVE FromLE(_)
FromLE(bs) == IF bs = << >> THEN 0 ELSE Head(bs) + 256 * FromLE(Tail(bs))

Take(s, n) == SubSeq(s, 1, n)
Drop(s, n) == SubSeq(s, n + 1, Len(s))

(***************************************************************************)
(* Key pairs.  A key pair is a number; its public and its secret half are  *)
(* both written as that number, and the shared key of a NaCl box between   *)
(* the pairs a and b is the set {a, b} (X25519 is symmetric).              *)
(***************************************************************************)
\* SERVER_LONG_TERM_PUBKEY
ServerLongTermKey == 0
\* the session's long-term key pair (Threema.private_key)
OwnKey == 1
\* a key pair that belongs to neither the server nor a peer
ForeignKey == 9
\* box_::gen_keypair() of the n-th connect(): a fresh pair each time
GenKeypair(n) == 100 + n
\* the server's ephemeral key pair of the n-th connection
ServerEphKey(n) == 200 + n

(***************************************************************************)
(* box_::seal and box_::open: authenticated encryption.  A ciphertext      *)
(* opens only under the nonce and the shared key it was sealed with, and   *)
(* it is 16 bytes (MACBYTES) longer than its plaintext.                    *)
(***************************************************************************)
MACBYTES == 16

BoxSeal(m, n, pk, sk) == [pt |-> m, nonce |-> n, keys |-> {pk, sk}]

BoxOpensNoNonce(c, n, pk, sk) == c.keys = {pk, sk}

BoxOpens(c, n, pk, sk) == c.nonce = n /\ c.keys = {pk, sk}

(***************************************************************************)
(* struct Nonce                                                            *)
(***************************************************************************)
NonceNew(prefix) == [prefix |-> prefix, counter |-> 1]

NonceAsBytes(n) == n.prefix \o U64LE(n.counter)

NonceIncTwice(n) == [n EXCEPT !.counter = @ + 2]

NonceInc(n) == [n EXCEPT !.counter = @ + 1]

(***************************************************************************)
(* The flat codec.  A deserializer returns None or Some([v, size]).        *)
(***************************************************************************)
Parsed(v, size) == Some([v |-> v, size |-> size])

\* impl_primitive!(u32), impl_primitive!(u64): little-endian, fixed width
U32Deserialize(data) ==
    IF Len(data) < 4 THEN None ELSE Parsed(FromLE(Take(data, 4)), 4)

U64Deserialize(data) ==
    IF Len(data) < 8 THEN None ELSE Parsed(FromLE(Take(data, 8)), 8)

\* impl_array! for [u8; n]: element idx is u8::deserialize of
\* data[size_of::<u8>() * idx ..] (U8At: impl_primitive!(u8) at that offset),
\* the consumed count is size_of::<[u8; n]>()
U8At(data, off) ==
    IF Len(data) - off < 1 THEN None ELSE Parsed(data[off + 1], 1)

ArrayU8Deserialize(data, n) ==
    IF \E idx \in 0..(n - 1) : IsNone(U8At(data, idx)) THEN None
    ELSE Parsed([i \in 1..n |-> Unwrap(U8At(data, i - 1)).v], n)

\* #[derive(Flat)] on a struct whose fields are byte arrays and u32: the fields
\* are read in declared order, each from what the previous ones left.
\* widths[i] > 0 is a [u8; widths[i]] field, widths[i] = 0 a u32 field.
RECURSIVE StructStep(_, _, _, _)
StructStep(data, widths, acc, total) ==
    IF widths = << >> THEN Parsed(acc, total)
    ELSE LET f == IF Head(widths) = 0 THEN U32Deserialize(data)
                  ELSE ArrayU8Deserialize(data, Head(widths))
         IN  IF IsNone(f) THEN None
             ELSE StructStep(Drop(data, Unwrap(f).size), Tail(widths),
                             Append(acc, Unwrap(f).v), total + Unwrap(f).size)

(***************************************************************************)
(* ThreemaID, MessageID: #[derive(Flat)] struct X([u8; 8])                 *)
(***************************************************************************)
IDLEN == 8

Alphabet == (65..90) \cup (48..57)

\* ThreemaID::from_slice
ThreemaIDFromSlice(id) ==
    IF Len(id) # IDLEN THEN None
    ELSE IF \E i \in 1..Len(id) : id[i] \notin Alphabet THEN None
    ELSE Some(id)

ID8Deserialize(data) ==
    LET r == StructStep(data, << IDLEN >>, << >>, 0)
    IN  IF IsNone(r) THEN None ELSE Parsed(Unwrap(r).v[1], Unwrap(r).size)

(***************************************************************************)
(* struct Header (packets.rs): sender, receiver, msg_id, timestamp, flags, *)
(* nickname, nonce.                                                        *)
(***************************************************************************)
NICKLEN == 32
NONCEBYTES == 24

HeaderSerializeReceiverFirst(h) ==
    h.receiver \o h.sender \o h.msg_id \o U32LE(h.timestamp) \o U32LE(h.flags)
      \o h.nickname \o h.nonce

HeaderSerialize(h) ==
    h.sender \o h.receiver \o h.msg_id \o U32LE(h.timestamp) \o U32LE(h.flags)
      \o h.nickname \o h.nonce

HeaderDeserialize(data) ==
    LET r == StructStep(data, << IDLEN, IDLEN, IDLEN, 0, 0, NICKLEN, NONCEBYTES >>, << >>, 0)
    IN  IF IsNone(r) THEN None
        ELSE LET f == Unwrap(r).v
             IN  Parsed([sender |-> f[1], receiver |-> f[2], msg_id |-> f[3],
                         timestamp |-> f[4], flags |-> f[5], nickname |-> f[6],
                         nonce |-> f[7]], Unwrap(r).size)

(***************************************************************************)
(* flat_enum! Packet, #[repr(u32)] (packets.rs).  A packet is the record   *)
(* [tag, f] of its discriminant and the tuple of its fields.               *)
(***************************************************************************)
EchoRequest == 0
EchoReply == 128
ClientToServer == 1
ServerToClient == 2
ServerAck == 129
ClientAck == 130
ConnectionEstablished == 208
DublicateConnection == 224
Alert == 225

Packet(tag, f) == [tag |-> tag, f |-> f]

\* derive_serialize: the discriminant as u32, little-endian, then the fields
PacketSerialize(p) ==
    U32LE(p.tag) \o
    CASE p.tag \in {EchoRequest, EchoReply} -> U64LE(p.f[1])
      [] p.tag \in {ClientToServer, ServerToClient} -> HeaderSerialize(p.f[1])
      [] p.tag \in {ServerAck, ClientAck} -> p.f[1] \o p.f[2]
      [] OTHER -> << >>

\* derive_deserialize: the tag, then the fields of the variant it selects
PacketDeserialize(msg) ==
    IF Len(msg) < 4 THEN None
    ELSE LET idx == FromLE(Take(msg, 4))
             data == Drop(msg, 4)
             total == 4
         IN  CASE idx \in {EchoRequest, EchoReply} ->
                    LET f0 == U64Deserialize(data)
                    IN  IF IsNone(f0) THEN None
                        ELSE Parsed(Packet(idx, << Unwrap(f0).v >>), total + Unwrap(f0).size)
               [] idx \in {ClientToServer, ServerToClient} ->
                    LET f0 == HeaderDeserialize(data)
                    IN  IF IsNone(f0) THEN None
                        ELSE Parsed(Packet(idx, << Unwrap(f0).v >>), total + Unwrap(f0).size)
               [] idx \in {ServerAck, ClientAck} ->
                    LET f0 == ID8Deserialize(data)
                    IN  IF IsNone(f0) THEN None
                        ELSE LET f1 == ID8Deserialize(Drop(data, Unwrap(f0).size))
                             IN  IF IsNone(f1) THEN None
                                 ELSE Parsed(Packet(idx, << Unwrap(f0).v, Unwrap(f1).v >>),
                                             total + Unwrap(f0).size + Unwrap(f1).size)
               [] idx \in {ConnectionEstablished, DublicateConnection, Alert} ->
                    Parsed(Packet(idx, << >>), total)
               [] OTHER -> None

(***************************************************************************)
(* flat_enum! Message and MessageStatus, #[repr(u8)] (packets.rs).         *)
(***************************************************************************)
Text == 1
DeliveryReceipt == 128
TypingNotification == 144
Delivered == 1

\* the discriminants of MessageStatus: Delivered = 1, then previous + 1
MessageStatusTags == 1..4

\* the variants of Message without fields, Image (after Text = 1) to
\* TypingNotification
UnitMessageTags ==
    {2, 16, 19, 20, 24, 25, 26} \cup (65..70) \cup (74..84) \cup (96..100)
      \cup {TypingNotification}

\* the variants whose last field is a JSON document: BallotCreate, BallotVote, File
JsonMessageTags == {21, 22, 23}

Message(tag, f) == [tag |-> tag, f |-> f]

\* String::from_utf8: well-formed UTF-8
RECURSIVE Utf8Valid(_)
Utf8Valid(bs) ==
    IF bs = << >> THEN TRUE
    ELSE LET b == bs[1]
             Cont(i, lo, hi) == Len(bs) >= i /\ bs[i] \in lo..hi
         IN  CASE b < 128 -> Utf8Valid(Drop(bs, 1))
               [] b \in 194..223 -> Cont(2, 128, 191) /\ Utf8Valid(Drop(bs, 2))
               [] b = 224 -> Cont(2, 160, 191) /\ Cont(3, 128, 191) /\ Utf8Valid(Drop(bs, 3))
               [] b \in (225..236) \cup {238, 239} ->
                    Cont(2, 128, 191) /\ Cont(3, 128, 191) /\ Utf8Valid(Drop(bs, 3))
               [] b = 237 -> Cont(2, 128, 159) /\ Cont(3, 128, 191) /\ Utf8Valid(Drop(bs, 3))
               [] b = 240 -> Cont(2, 144, 191) /\ Cont(3, 128, 191) /\ Cont(4, 128, 191)
                               /\ Utf8Valid(Drop(bs, 4))
               [] b \in 241..243 -> Cont(2, 128, 191) /\ Cont(3, 128, 191) /\ Cont(4, 128, 191)
                               /\ Utf8Valid(Drop(bs, 4))
               [] b = 244 -> Cont(2, 128, 143) /\ Cont(3, 128, 191) /\ Cont(4, 128, 191)
                               /\ Utf8Valid(Drop(bs, 4))
               [] OTHER -> FALSE

\* impl Flat for Text: the text runs to the end of the data
TextSerialize(message) == message

TextDeserialize(data) ==
    IF Utf8Valid(data) THEN Parsed(data, Len(data)) ELSE None

MessageSerialize(m) ==
    << m.tag >> \o
    CASE m.tag = Text -> TextSerialize(m.f[1])
      [] m.tag = DeliveryReceipt -> << m.f[1] >> \o m.f[2]
      [] OTHER -> << >>

MessageStatusDeserialize(data) ==
    IF Len(data) < 1 THEN None
    ELSE IF data[1] \in MessageStatusTags THEN Parsed(data[1], 1) ELSE None

\* serde_json::from_slice for Ballot, BallotUpdates and File: the byte strings
\* this model draws hold no JSON document
JsonFromSlice(data) == None

MessageDeserialize(input) ==
    IF Len(input) < 1 THEN None
    ELSE LET idx == input[1]
             data == Drop(input, 1)
             total == 1
         IN  CASE idx = Text ->
                    LET f0 == TextDeserialize(data)
                    IN  IF IsNone(f0) THEN None
                        ELSE Parsed(Message(idx, << Unwrap(f0).v >>), total + Unwrap(f0).size)
               [] idx = DeliveryReceipt ->
                    LET f0 == MessageStatusDeserialize(data)
                    IN  IF IsNone(f0) THEN None
                        ELSE LET f1 == ID8Deserialize(Drop(data, Unwrap(f0).size))
                             IN  IF IsNone(f1) THEN None
                                 ELSE Parsed(Message(idx, << Unwrap(f0).v, Unwrap(f1).v >>),
                                             total + Unwrap(f0).size + Unwrap(f1).size)
               [] idx \in UnitMessageTags -> Parsed(Message(idx, << >>), total)
               [] idx \in JsonMessageTags -> JsonFromSlice(data)
               [] OTHER -> None

(***************************************************************************)
(* The values the environment and the random generator draw from.          *)
(***************************************************************************)
PREFIXLEN == 16

\* Threema.id and Threema.private_key: fixed for the life of the session
id == Rep(IDLEN, 65)
private_key == OwnKey

PeerB == Rep(IDLEN, 66)
PeerC == Rep(IDLEN, 67)
Peers == {PeerB, PeerC}

\* the long-term key pair of a peer
PeerKeyOf(peer) == IF peer = PeerB THEN 2 ELSE 3

\* the texts the caller sends
Texts == {<< >>, <<104, 105>>}

\* randombytes_uniform(32): 0 <= pad < 32
UNIFORM_BOUND == 32
\* what the directory answers to GET /identity/{peer}: the peer's key or another
\* one, a key of the wrong length, or no usable answer at all
DirAnswers(peer) ==
    {[kind |-> "key", key |-> k] :
        k \in IF peer = PeerB THEN {PeerKeyOf(peer), ForeignKey} ELSE {PeerKeyOf(peer)}}
      \cup {[kind |-> "badlen", key |-> 0], [kind |-> "error", key |-> 0]}

\* no request is made
NoAnswer == [kind |-> "none", key |-> 0]

\* the outcome of the two write_all calls of send
SendIo == {"ok", "len_fails", "data_fails"}

(***************************************************************************)
(* The state: the fields of struct Threema, and what the caller and the    *)
(* network see of it.                                                      *)
(***************************************************************************)
VARIABLES
    client_nonce,           \* Option<Nonce>
    server_nonce,           \* Option<Nonce>
    server_pubkey,          \* Option<PublicKey>
    ephemeral_private_key,  \* Option<PrivateKey>
    conn,                   \* Option<TcpStream>: the number of the connection
    peers,                  \* HashMap<ThreemaID, PublicKey>
    pc,                     \* where the caller is: "idle", inside receive(), "panicked"
    rx,                     \* receive(): the frame read and what was decoded of it
    result,                 \* what the last call returned
    out,                    \* the frames the current call wrote to the socket
    built,                  \* send_message: the body before and after padding
    handshake,              \* connect(): what the last handshake read
    attempts,               \* connect() calls that reached the server
    sealed,                 \* (key, counter) of every seal towards the server
    opened,                 \* (key, counter) of every successful open from the server
    sealReuse,              \* a seal used a (key, counter) a second time
    openReuse,              \* an open used a (key, counter) a second time
    hsFailed,               \* a handshake of this session has failed
    rxFailed,               \* a transport frame of this session failed to open
    innerFailed,            \* a delivery of this session failed to open or to parse
    dir,                    \* the directory requests of the call: peer and answer
    codec,                  \* a use of the flat codec: input, bytes, outcome
    calc,                   \* a call of a function of identity.rs or of Nonce
    net                     \* two sessions in a receive() loop and the server between them

session == << client_nonce, server_nonce, server_pubkey, ephemeral_private_key, conn >>
history == << sealed, opened, sealReuse, openReuse, hsFailed, rxFailed, innerFailed >>
vars == << client_nonce, server_nonce, server_pubkey, ephemeral_private_key, conn, peers,
           pc, rx, result, out, built, handshake, attempts,
           sealed, opened, sealReuse, openReuse, hsFailed, rxFailed, innerFailed, dir,
           codec, calc, net >>

Result(op, status, val) == [op |-> op, status |-> status, val |-> val]
NoResult == Result("none", "none", << >>)

\* where the caller is after a call that ended with status: a panic ends the
\* process, every other status is returned
AfterOpenUnwrapped(status) ==
    IF status \in {"panic", "DecryptionFailed"} THEN "panicked" ELSE "returned"

After(status) == IF status = "panic" THEN "panicked" ELSE "returned"

NoRx == [stage |-> "none", frame |-> None, hdr |-> None, payload |-> None, plain |-> None, msg |-> None]
NoBuilt == [receiver |-> << >>, data |-> << >>, padded |-> << >>, pad |-> 0]
NoHandshake == [sent |-> << >>, echo |-> << >>, ack |-> << >>, wire |-> << >>]

\* no function of identity.rs or of Nonce has been called
CalcIdle == [pc |-> "idle", op |-> "none", input |-> << >>, out |-> [tag |-> "None"]]

\* no value has been handed to the codec
CodecIdle == [pc |-> "idle", mode |-> "none", input |-> 0, bytes |-> << >>, cut |-> FALSE,
              out |-> [tag |-> "None"]]

\* two sessions that have connected and sent nothing
NetIdle ==
    [inbox |-> << << >>, << >> >>, frames |-> << 0, 0 >>, receipts |-> << 0, 0 >>,
     user |-> << 0, 0 >>, alive |-> << TRUE, TRUE >>,
     last |-> [client |-> 0, kind |-> "none", sent |-> 0]]

\* Threema::new
Init ==
    /\ client_nonce = None
    /\ server_nonce = None
    /\ server_pubkey = None
    /\ ephemeral_private_key = None
    /\ conn = None
    /\ peers = [p \in {} |-> 0]
    /\ pc = "idle"
    /\ rx = NoRx
    /\ result = NoResult
    /\ out = << >>
    /\ built = NoBuilt
    /\ handshake = NoHandshake
    /\ attempts = 0
    /\ sealed = {}
    /\ opened = {}
    /\ sealReuse = FALSE
    /\ openReuse = FALSE
    /\ hsFailed = FALSE
    /\ rxFailed = FALSE
    /\ innerFailed = FALSE
    /\ dir = << >>
    /\ codec = CodecIdle
    /\ calc = CalcIdle
    /\ net = NetIdle

(***************************************************************************)
(* Threema::connect.  The environment draws what the network does: whether *)
(* the TCP connect succeeds, which read or write (if any) fails, and the   *)
(* three messages of the server.                                           *)
(***************************************************************************)
ZeroAck == Rep(16, 0)

\* which step of the handshake the network breaks, if any
HandshakeIo == {"none", "tcp", "write_hello", "read_hello", "write_login", "read_ack"}

\* the first sealed message of the server: S_eph_pub and the echoed prefix,
\* sealed by key pair k under the server nonce with counter c
ServerHello(n, sp, e, c, k) ==
    BoxSeal([server_pkey |-> ServerEphKey(n), echo |-> e],
            NonceAsBytes([prefix |-> sp, counter |-> c]), k, GenKeypair(n))

\* the sealed ack of the server
ServerAckBox(n, sp, a, c, k) ==
    BoxSeal(a, NonceAsBytes([prefix |-> sp, counter |-> c]), k, GenKeypair(n))

\* The runs of the handshake the environment can produce for the n-th connect():
\* the honest server with each network fault, and without a fault a server
\* hello or a server ack that is wrong in one respect.
HandshakeRuns(n) ==
    LET cp == Rep(PREFIXLEN, 0)
        sp == Rep(PREFIXLEN, 7)
        goodHello == ServerHello(n, sp, cp, 1, ServerLongTermKey)
        goodAck   == ServerAckBox(n, sp, ZeroAck, 2, ServerEphKey(n))
        run(io, hello, ack) == [io |-> io, cp |-> cp, sp |-> sp, hello |-> hello, ack |-> ack]
    IN  {run(io, goodHello, goodAck) : io \in HandshakeIo}
          \cup {run("none", h, goodAck) :
                  h \in {ServerHello(n, sp, sp, 1, ServerLongTermKey),
                         ServerHello(n, sp, cp, 2, ServerLongTermKey),
                         ServerHello(n, sp, cp, 1, ForeignKey)}}
          \cup {run("none", goodHello, a) :
                  a \in {ServerAckBox(n, sp, Rep(16, 1), 2, ServerEphKey(n)),
                         ServerAckBox(n, sp, ZeroAck, 3, ServerEphKey(n)),
                         ServerAckBox(n, sp, ZeroAck, 2, ForeignKey)}}

\* the check of the echoed prefix: assert!(client_nonce.prefix() == tmp)
EchoAccepted(prefix, tmp) == prefix = tmp

\* the check of the final ack: assert!(ack == [0u8; 16])
AckAcceptedAny(ack) == TRUE

AckAccepted(ack) == ack = ZeroAck

\* the writes and reads on the socket of a run of connect() that got to the
\* given stage, in the order of the calls
HandshakeWireLoginFirst(stage) ==
    (IF stage >= 2 THEN << [dir |-> "write", len |-> 32], [dir |-> "write", len |-> 16] >>
     ELSE << >>)
      \o (IF stage >= 3 THEN << [dir |-> "write", len |-> 144] >> ELSE << >>)
      \o (IF stage >= 6 THEN << [dir |-> "read", len |-> 16], [dir |-> "read", len |-> 64] >>
          ELSE << >>)
      \o (IF stage >= 7 THEN << [dir |-> "read", len |-> 32] >> ELSE << >>)

HandshakeWire(stage) ==
    (IF stage >= 2 THEN << [dir |-> "write", len |-> 32], [dir |-> "write", len |-> 16] >>
     ELSE << >>)
      \o (IF stage >= 3 THEN << [dir |-> "read", len |-> 16], [dir |-> "read", len |-> 64] >>
          ELSE << >>)
      \o (IF stage >= 6 THEN << [dir |-> "write", len |-> 144] >> ELSE << >>)
      \o (IF stage >= 7 THEN << [dir |-> "read", len |-> 32] >> ELSE << >>)

\* How far one run of connect() gets, and what it leaves behind.
\*   stage 0: TcpStream::connect failed            -> Err(Io)
\*   stage 1: a write of the hello failed           -> panic
\*   stage 2: a read of the server hello failed     -> panic
\*   stage 3: the server hello did not open         -> panic
\*   stage 4: the echoed prefix differs             -> panic
\*   stage 5: the write of the login failed         -> panic
\*   stage 6: the read of the ack failed            -> panic
\*   stage 7: the ack did not open                  -> panic
\*   stage 8: the ack is not 16 zero bytes          -> panic
\*   stage 9: Ok(())
ConnectRun(n, io, cp, sp, hello, ack) ==
    LET eph           == GenKeypair(n)
        client0       == NonceNew(cp)
        server0       == NonceNew(sp)
        helloOpens    == BoxOpens(hello, NonceAsBytes(server0), ServerLongTermKey, eph)
        server_pkey   == hello.pt.server_pkey
        tmp           == hello.pt.echo
        server1       == NonceInc(server0)
        client1       == NonceInc(client0)
        ackOpens      == BoxOpens(ack, NonceAsBytes(server1), server_pkey, eph)
        server2       == NonceInc(server1)
        stage         == CASE io = "tcp" -> 0
                           [] io = "write_hello" -> 1
                           [] io = "read_hello" -> 2
                           [] ~helloOpens -> 3
                           [] ~EchoAccepted(client0.prefix, tmp) -> 4
                           [] io = "write_login" -> 5
                           [] io = "read_ack" -> 6
                           [] ~ackOpens -> 7
                           [] ~AckAccepted(ack.pt) -> 8
                           [] OTHER -> 9
    IN  [stage  |-> stage,
         status |-> IF stage = 0 THEN "Io" ELSE IF stage = 9 THEN "Ok" ELSE "panic",
         client_nonce |-> client1,
         server_nonce |-> server2,
         server_pubkey |-> server_pkey,
         ephemeral_private_key |-> eph,
         seals  |-> IF stage >= 5 THEN {[key |-> eph, counter |-> client0.counter]} ELSE {},
         opens  |-> (IF stage >= 4 THEN {[key |-> eph, counter |-> server0.counter]} ELSE {})
                      \cup (IF stage >= 8 THEN {[key |-> eph, counter |-> server1.counter]} ELSE {}),
         seen   |-> [sent |-> IF stage >= 1 THEN cp ELSE << >>,
                     echo |-> IF stage >= 4 THEN tmp ELSE << >>,
                     ack  |-> IF stage >= 8 THEN ack.pt ELSE << >>,
                     wire |-> HandshakeWire(stage)]]

ConnectStoresConnEarly ==
    /\ UNCHANGED << codec, calc, net >>
    /\ pc = "idle"
    /\ attempts < MaxConnects
    /\ \E h \in HandshakeRuns(attempts + 1) :
       \E run \in {ConnectRun(attempts + 1, h.io, h.cp, h.sp, h.hello, h.ack)} :
         LET ok == run.status = "Ok"
         IN  /\ attempts' = attempts + 1
             /\ client_nonce' = IF ok THEN Some(run.client_nonce) ELSE client_nonce
             /\ server_nonce' = IF ok THEN Some(run.server_nonce) ELSE server_nonce
             /\ server_pubkey' = IF ok THEN Some(run.server_pubkey) ELSE server_pubkey
             /\ ephemeral_private_key' =
                    IF ok THEN Some(run.ephemeral_private_key) ELSE ephemeral_private_key
             /\ conn' = IF run.stage >= 1 THEN Some(attempts + 1) ELSE conn
             /\ pc' = After(run.status)
             /\ result' = Result("connect", run.status, << run.stage >>)
             /\ handshake' = run.seen
             /\ out' = << >>
             /\ sealReuse' = (sealReuse \/ run.seals \cap sealed # {})
             /\ openReuse' = (openReuse \/ run.opens \cap opened # {})
             /\ sealed' = IF ok THEN run.seals ELSE sealed \cup run.seals
             /\ opened' = IF ok THEN run.opens ELSE opened \cup run.opens
             /\ hsFailed' = (hsFailed \/ ~ok)
             /\ rxFailed' = IF ok THEN FALSE ELSE rxFailed
             /\ innerFailed' = IF ok THEN FALSE ELSE innerFailed
             /\ UNCHANGED << peers, rx, built, dir >>

Connect ==
    /\ UNCHANGED << codec, calc, net >>
    /\ pc = "idle"
    /\ attempts < MaxConnects
    /\ \E h \in HandshakeRuns(attempts + 1) :
       \E run \in {ConnectRun(attempts + 1, h.io, h.cp, h.sp, h.hello, h.ack)} :
         LET ok == run.status = "Ok"
         IN  /\ attempts' = attempts + 1
             /\ client_nonce' = IF ok THEN Some(run.client_nonce) ELSE client_nonce
             /\ server_nonce' = IF ok THEN Some(run.server_nonce) ELSE server_nonce
             /\ server_pubkey' = IF ok THEN Some(run.server_pubkey) ELSE server_pubkey
             /\ ephemeral_private_key' =
                    IF ok THEN Some(run.ephemeral_private_key) ELSE ephemeral_private_key
             /\ conn' = IF ok THEN Some(attempts + 1) ELSE conn
             /\ pc' = After(run.status)
             /\ result' = Result("connect", run.status, << run.stage >>)
             /\ handshake' = run.seen
             /\ out' = << >>
             /\ sealReuse' = (sealReuse \/ run.seals \cap sealed # {})
             /\ openReuse' = (openReuse \/ run.opens \cap opened # {})
             /\ sealed' = IF ok THEN run.seals ELSE sealed \cup run.seals
             /\ opened' = IF ok THEN run.opens ELSE opened \cup run.opens
             /\ hsFailed' = (hsFailed \/ ~ok)
             /\ rxFailed' = IF ok THEN FALSE ELSE rxFailed
             /\ innerFailed' = IF ok THEN FALSE ELSE innerFailed
             /\ UNCHANGED << peers, rx, built, dir >>

(***************************************************************************)
(* Threema::send: seal the payload under the client nonce, write the       *)
(* two-byte length and the sealed bytes, then advance the client nonce.    *)
(* A transport payload is [bytes, ct]: the serialized packet and, after    *)
(* it, the end-to-end ciphertext (None when there is none).                *)
(***************************************************************************)
Payload(bytes, ct) == [bytes |-> bytes, ct |-> ct]

PayloadLen(data) ==
    Len(data.bytes) + (IF IsSome(data.ct) THEN Len(Unwrap(data.ct).pt) + MACBYTES ELSE 0)

\* enc_packet.len() as u16
SealedLen(data) == (PayloadLen(data) + MACBYTES) % 65536

Frame(len, box) == [len |-> len, box |-> box]

\* the frames of fs that were written completely
Completed(fs) == Cardinality({i \in 1..Len(fs) : IsSome(fs[i].box)})

Send(data, io) ==
    IF IsNone(client_nonce) \/ IsNone(server_pubkey) \/ IsNone(ephemeral_private_key)
    THEN [status |-> "NotConnected", client_nonce |-> client_nonce,
          frames |-> << >>, seals |-> {}]
    ELSE LET nonce      == Unwrap(client_nonce)
             enc_packet == BoxSeal(data, NonceAsBytes(nonce), Unwrap(server_pubkey),
                                   Unwrap(ephemeral_private_key))
             len        == SealedLen(data)
             seals      == {[key |-> Unwrap(ephemeral_private_key), counter |-> nonce.counter]}
         IN  IF IsNone(conn)
             THEN [status |-> "NotConnected", client_nonce |-> client_nonce,
                   frames |-> << >>, seals |-> seals]
             ELSE IF io = "len_fails"
             THEN [status |-> "Io", client_nonce |-> client_nonce,
                   frames |-> << >>, seals |-> seals]
             ELSE IF io = "data_fails"
             THEN [status |-> "Io", client_nonce |-> client_nonce,
                   frames |-> << Frame(len, None) >>, seals |-> seals]
             ELSE [status |-> "Ok", client_nonce |-> Some(NonceInc(nonce)),
                   frames |-> << Frame(len, Some(enc_packet)) >>, seals |-> seals]

(***************************************************************************)
(* Threema::fetch_peer_key and Threema::get_peer_key                       *)
(***************************************************************************)
\* rest::request(..).unwrap() panics when the request fails;
\* PublicKey::from_slice is None for a key of the wrong length
FetchPeerKey(peer, answer) ==
    CASE answer.kind = "error" -> [status |-> "panic", key |-> 0]
      [] answer.kind = "badlen" -> [status |-> "InvalidPublicKey", key |-> 0]
      [] OTHER -> [status |-> "Ok", key |-> answer.key]

\* a request to the directory and what it answered
Asked(peer, answer) == [peer |-> peer, kind |-> answer.kind, key |-> answer.key]

GetPeerKeyRefetch(peer, answer) ==
    LET pk == FetchPeerKey(peer, answer)
    IN  IF pk.status # "Ok"
        THEN [status |-> pk.status, key |-> 0, peers |-> peers,
              asked |-> << Asked(peer, answer) >>]
        ELSE [status |-> "Ok", key |-> pk.key, asked |-> << Asked(peer, answer) >>,
              peers |-> [x \in DOMAIN peers \cup {peer} |->
                            IF x = peer THEN pk.key ELSE peers[x]]]

GetPeerKey(peer, answer) ==
    IF peer \in DOMAIN peers
    THEN [status |-> "Ok", key |-> peers[peer], peers |-> peers, asked |-> << >>]
    ELSE LET pk == FetchPeerKey(peer, answer)
         IN  IF pk.status # "Ok"
             THEN [status |-> pk.status, key |-> 0, peers |-> peers,
                   asked |-> << Asked(peer, answer) >>]
             ELSE [status |-> "Ok", key |-> pk.key, asked |-> << Asked(peer, answer) >>,
                   peers |-> [x \in DOMAIN peers \cup {peer} |->
                                 IF x = peer THEN pk.key ELSE peers[x]]]

(***************************************************************************)
(* Threema::send_message                                                   *)
(***************************************************************************)
\* Threema.nick is None: the identity, zero-filled to 32 bytes
GetNickname == Take(id, IF Len(id) < NICKLEN THEN Len(id) ELSE NICKLEN)
                 \o Rep(NICKLEN - (IF Len(id) < NICKLEN THEN Len(id) ELSE NICKLEN), 0)

\* data.append(&mut vec![pad; pad as usize])
Pad(data, pad) == data \o Rep(pad, pad)

\* The random draws of one send_message (header.nonce, msg_id, pad), the clock
\* and the outcome of the socket writes: the smallest, a middle and the largest
\* pad, each message id, each outcome of the writes.
Draw(msg_id, pad, io) ==
    [nonce |-> Rep(NONCEBYTES, 3), msg_id |-> msg_id, now |-> 1700000000, pad |-> pad, io |-> io]

Draws ==
    {Draw(Rep(IDLEN, 0), 0, "ok"), Draw(Rep(IDLEN, 255), 1, "ok"),
     Draw(Rep(IDLEN, 0), UNIFORM_BOUND - 1, "ok"),
     Draw(Rep(IDLEN, 0), 1, "len_fails"), Draw(Rep(IDLEN, 255), 1, "data_fails")}

SendMessage(receiver, data, answer, d) ==
    LET k == GetPeerKey(receiver, answer)
    IN  IF k.status # "Ok"
        THEN [status |-> k.status, msg_id |-> d.msg_id, peers |-> k.peers, asked |-> k.asked,
              client_nonce |-> client_nonce, frames |-> << >>, seals |-> {},
              built |-> built]
        ELSE LET header     == [sender |-> id, receiver |-> receiver, nonce |-> d.nonce,
                                msg_id |-> d.msg_id, nickname |-> GetNickname,
                                timestamp |-> d.now, flags |-> 1]
                 padded     == Pad(data, d.pad)
                 ciphertext == BoxSeal(padded, header.nonce, k.key, private_key)
                 packet     == Payload(PacketSerialize(Packet(ClientToServer, << header >>)),
                                       Some(ciphertext))
                 s          == Send(packet, d.io)
             IN  [status |-> s.status, msg_id |-> d.msg_id, peers |-> k.peers, asked |-> k.asked,
                  client_nonce |-> s.client_nonce, frames |-> s.frames, seals |-> s.seals,
                  built |-> [receiver |-> receiver, data |-> data, padded |-> padded,
                             pad |-> d.pad]]

\* the nonce counter behind a call stays within the bound of the model
CounterBelow(nonce, k) == IsSome(nonce) => Unwrap(nonce).counter + k <= MaxCounter

\* Threema::send_text_message
SendTextMessage ==
    /\ UNCHANGED << codec, calc, net >>
    /\ pc = "idle"
    /\ CounterBelow(client_nonce, 1)
    /\ \E receiver \in Peers, message \in Texts, d \in Draws :
       \E answer \in IF receiver \in DOMAIN peers THEN {NoAnswer} ELSE DirAnswers(receiver) :
       \E r \in {SendMessage(receiver, MessageSerialize(Message(Text, << message >>)),
                            answer, d)} :
             /\ peers' = r.peers
             /\ client_nonce' = r.client_nonce
             /\ out' = r.frames
             /\ built' = r.built
             /\ result' = Result("send_text_message", r.status,
                                 IF r.status = "Ok" THEN << r.msg_id >> ELSE << >>)
             /\ pc' = After(r.status)
             /\ sealReuse' = (sealReuse \/ r.seals \cap sealed # {})
             /\ sealed' = sealed \cup r.seals
             /\ dir' = dir \o r.asked
             /\ UNCHANGED << server_nonce, server_pubkey, ephemeral_private_key, conn,
                             rx, handshake, attempts, opened, openReuse, hsFailed, rxFailed,
                             innerFailed >>

(***************************************************************************)
(* What the server sends after the handshake.                              *)
(***************************************************************************)
\* the end-to-end plaintexts a peer seals: padded message bodies, well-formed
\* and not
InBodies ==
    {<< >>,                                          \* no plaintext at all
     <<Text, 104, 105, 1>>,                          \* "hi", pad 1
     <<Text, 104, 105, 2, 2>>,                       \* "hi", pad 2
     <<Text, 104, 105>>,                             \* "hi", no padding: pad byte 105
     <<Text, 104, 0>>,                               \* pad byte 0
     <<Text, 9>>,                                    \* pad byte larger than the plaintext
     <<Text>> \o Rep(39, 33),                        \* pad byte 33, 40 bytes
     <<2, 2>>,                                       \* nothing left after the padding
     <<Text, 255, 1>>,                               \* text that is not UTF-8
     <<127, 1>>,                                     \* no variant has tag 0x7f
     <<2, 1>>,                                       \* Image
     <<TypingNotification, 1>>,
     <<DeliveryReceipt, Delivered>> \o Rep(IDLEN, 255) \o <<1>>,
     <<DeliveryReceipt, 9>> \o Rep(IDLEN, 255) \o <<1>>}   \* no such MessageStatus

InHeader(sender, msg_id) ==
    [sender |-> sender, receiver |-> id, msg_id |-> msg_id, timestamp |-> 1700000000,
     flags |-> 0, nickname |-> Rep(NICKLEN, 0), nonce |-> Rep(NONCEBYTES, 5)]

\* a delivery: the header, then the body sealed by key pair k under nonce n
Delivery(msg_id, body, n, k) ==
    Payload(PacketSerialize(Packet(ServerToClient, << InHeader(PeerB, msg_id) >>)),
            Some(BoxSeal(body, n, k, OwnKey)))

\* The transport plaintexts the server seals.  The serialized packet of a
\* payload with a ciphertext is a complete packet; a cut or unknown packet
\* comes without ciphertext.
InPayloads ==
    {Delivery(Rep(IDLEN, 0), b, Rep(NONCEBYTES, 5), PeerKeyOf(PeerB)) : b \in InBodies}
      \cup {Delivery(Rep(IDLEN, 255), <<Text, 104, 105, 1>>, Rep(NONCEBYTES, 5), PeerKeyOf(PeerB)),
            Delivery(Rep(IDLEN, 0), <<Text, 104, 105, 1>>, Rep(NONCEBYTES, 6), PeerKeyOf(PeerB)),
            Delivery(Rep(IDLEN, 0), <<Text, 104, 105, 1>>, Rep(NONCEBYTES, 5), ForeignKey),
            Payload(PacketSerialize(Packet(ServerToClient, << InHeader(PeerB, Rep(IDLEN, 0)) >>)),
                    None)}
      \cup {Payload(bytes, None) :
              bytes \in {PacketSerialize(Packet(ServerAck, << PeerB, Rep(IDLEN, 0) >>)),
                         PacketSerialize(Packet(ConnectionEstablished, << >>)),
                         PacketSerialize(Packet(DublicateConnection, << >>)),
                         PacketSerialize(Packet(Alert, << >>)),
                         PacketSerialize(Packet(EchoReply, << 7 >>)),
                         PacketSerialize(Packet(ClientToServer, << InHeader(PeerB, Rep(IDLEN, 0)) >>)),
                         U32LE(3),
                         U32LE(ServerToClient) \o Rep(10, 65),
                         << >>}}

\* The frames the network can deliver to a connected session: each payload
\* sealed as the server seals it, and one payload sealed under the counter
\* before the current one, under the one after it, and under a foreign key.
InFrames ==
    IF IsNone(server_nonce) \/ IsNone(server_pubkey) \/ IsNone(ephemeral_private_key)
    THEN {}
    ELSE LET n   == Unwrap(server_nonce)
             spk == Unwrap(server_pubkey)
             eph == Unwrap(ephemeral_private_key)
             seal(data, c, k) ==
                 Frame(SealedLen(data),
                       Some(BoxSeal(data, NonceAsBytes([n EXCEPT !.counter = c]), k, eph)))
             one == Delivery(Rep(IDLEN, 0), <<Text, 104, 105, 1>>, Rep(NONCEBYTES, 5),
                             PeerKeyOf(PeerB))
         IN  {seal(data, n.counter, spk) : data \in InPayloads}
               \cup {seal(one, n.counter - 1, spk), seal(one, n.counter + 1, spk),
                     seal(one, n.counter, ForeignKey)}

(***************************************************************************)
(* Threema::receive_packet                                                 *)
(***************************************************************************)
ReceivePacket(frame, io) ==
    LET fail(status, opens) ==
            [status |-> status, server_nonce |-> server_nonce, packet |-> None,
             payload |-> None, opens |-> opens]
    IN  IF IsNone(conn) THEN fail("NotConnected", {})
        ELSE IF io = "len_fails" THEN fail("Io", {})
        ELSE IF io = "data_fails" THEN fail("panic", {})
        ELSE IF IsNone(server_nonce) \/ IsNone(server_pubkey) \/ IsNone(ephemeral_private_key)
        THEN fail("NotConnected", {})
        ELSE LET nonce == Unwrap(server_nonce)
                 buf   == Unwrap(frame.box)
             IN  IF ~BoxOpens(buf, NonceAsBytes(nonce), Unwrap(server_pubkey),
                              Unwrap(ephemeral_private_key))
                 THEN fail("DecryptionFailed", {})
                 ELSE LET msg    == buf.pt
                          opens  == {[key |-> Unwrap(ephemeral_private_key),
                                      counter |-> nonce.counter]}
                          parsed == PacketDeserialize(msg.bytes)
                      IN  IF IsNone(parsed)
                          THEN [status |-> "ParseError", server_nonce |-> Some(NonceInc(nonce)),
                                packet |-> None, payload |-> None, opens |-> opens]
                          ELSE [status |-> "Ok", server_nonce |-> Some(NonceInc(nonce)),
                                packet |-> Some(Unwrap(parsed).v),
                                payload |-> Some(Payload(Drop(msg.bytes, Unwrap(parsed).size),
                                                         msg.ct)),
                                opens |-> opens]

\* the frames and read outcomes one call of receive_packet can meet
Reads ==
    IF IsNone(conn) THEN {[frame |-> Frame(0, None), io |-> "ok"]}
    ELSE {[frame |-> f, io |-> "ok"] : f \in InFrames}
           \cup {[frame |-> Frame(0, None), io |-> io] : io \in {"len_fails", "data_fails"}}

\* what a call of receive_packet does to the state, but for pc, rx and result
ReceivePacketEffect(r, read) ==
    /\ server_nonce' = r.server_nonce
    /\ openReuse' = (openReuse \/ r.opens \cap opened # {})
    /\ opened' = opened \cup r.opens
    /\ rxFailed' = (rxFailed \/ r.status = "DecryptionFailed")
    /\ UNCHANGED << client_nonce, server_pubkey, ephemeral_private_key, conn, peers, out,
                    built, handshake, attempts, sealed, sealReuse, hsFailed, innerFailed,
                    dir >>

\* the caller calls receive_packet
ReceivePacketCall ==
    /\ UNCHANGED << codec, calc, net >>
    /\ pc = "idle"
    /\ CounterBelow(server_nonce, 1)
    /\ \E read \in Reads : \E r \in {ReceivePacket(read.frame, read.io)} :
             /\ ReceivePacketEffect(r, read)
             /\ pc' = After(r.status)
             /\ rx' = [NoRx EXCEPT !.stage = "packet", !.frame = read.frame.box,
                                   !.payload = r.payload]
             /\ result' = Result("receive_packet", r.status, r.packet)

(***************************************************************************)
(* Threema::receive.  The call is a loop over receive_packet; a delivery   *)
(* is acknowledged (send_ack), opened and decoded, confirmed               *)
(* (confirm_receipt) and returned.  pc says where the call is.             *)
(***************************************************************************)
\* match packet: a delivery is handled, every other packet is logged and the
\* loop reads on
AfterPacketReturns(packet) ==
    IF packet.tag = ServerToClient THEN "send_ack" ELSE "returned"

AfterPacket(packet) ==
    IF packet.tag = ServerToClient THEN "send_ack" ELSE "receive"

\* the loop head: receive_packet, and the match on the packet
Receive ==
    /\ UNCHANGED << codec, calc, net >>
    /\ pc \in {"idle", "receive"}
    /\ CounterBelow(server_nonce, 1)
    /\ CounterBelow(client_nonce, 2)
    /\ \E read \in Reads : \E r \in {ReceivePacket(read.frame, read.io)} :
         LET delivery == r.status = "Ok" /\ Unwrap(r.packet).tag = ServerToClient
         IN  /\ ReceivePacketEffect(r, read)
             /\ pc' = IF r.status # "Ok" THEN After(r.status)
                      ELSE AfterPacket(Unwrap(r.packet))
             /\ rx' = [NoRx EXCEPT !.stage = "packet", !.frame = read.frame.box,
                                   !.payload = r.payload,
                                   !.hdr = IF delivery THEN Some(Unwrap(r.packet).f[1]) ELSE None]
             /\ result' = IF r.status = "Ok" THEN Result("receive", "running", << >>)
                          ELSE Result("receive", r.status, << >>)

\* Packet::IncomingMessageAck(receiver, msg_id)
AckPacketWrongTag(receiver, msg_id) == Packet(ServerAck, << receiver, msg_id >>)

AckPacket(receiver, msg_id) == Packet(ClientAck, << receiver, msg_id >>)

\* Threema::send_ack
SendAck(receiver, msg_id, io) ==
    Send(Payload(PacketSerialize(AckPacket(receiver, msg_id)), None), io)

ReceiveSendAck ==
    /\ UNCHANGED << codec, calc, net >>
    /\ pc = "send_ack"
    /\ \E io \in SendIo :
       \E s \in {SendAck(Unwrap(rx.hdr).sender, Unwrap(rx.hdr).msg_id, io)} :
             /\ client_nonce' = s.client_nonce
             /\ out' = out \o s.frames
             /\ sealReuse' = (sealReuse \/ s.seals \cap sealed # {})
             /\ sealed' = sealed \cup s.seals
             /\ pc' = IF s.status = "Ok" THEN "open" ELSE After(s.status)
             /\ rx' = [rx EXCEPT !.stage = "send_ack"]
             /\ result' = IF s.status = "Ok" THEN result ELSE Result("receive", s.status, << >>)
             /\ UNCHANGED << server_nonce, server_pubkey, ephemeral_private_key, conn, peers,
                             built, handshake, attempts, opened, openReuse, hsFailed, rxFailed,
                             innerFailed, dir >>

\* let pad = *data.last().unwrap() as usize; &data[..data.len() - pad]:
\* None when the plaintext is empty or shorter than its last byte (a panic)
StripPadding(data) ==
    IF Len(data) = 0 THEN None
    ELSE LET pad == data[Len(data)]
         IN  IF pad > Len(data) THEN None ELSE Some(Take(data, Len(data) - pad))

\* get_peer_key, box_::open, the padding and Message::deserialize_with_size
OpenDelivery(hdr, payload, answer) ==
    LET k == GetPeerKey(hdr.sender, answer)
        fail(status, plain) ==
            [status |-> status, peers |-> k.peers, asked |-> k.asked, plain |-> plain,
             msg |-> None]
    IN  IF k.status # "Ok" THEN fail(k.status, None)
        ELSE IF ~(payload.bytes = << >> /\ IsSome(payload.ct)
                    /\ BoxOpens(Unwrap(payload.ct), hdr.nonce, k.key, private_key))
        THEN fail("DecryptionFailed", None)
        ELSE LET data     == Unwrap(payload.ct).pt
                 stripped == StripPadding(data)
             IN  IF IsNone(stripped) THEN fail("panic", Some(data))
                 ELSE LET m == MessageDeserialize(Unwrap(stripped))
                      IN  IF IsNone(m) THEN fail("ParseError", Some(data))
                          ELSE [status |-> "Ok", peers |-> k.peers, asked |-> k.asked,
                                plain |-> Some(data),
                                msg |-> Some(Unwrap(m).v)]

ReceiveOpen ==
    /\ UNCHANGED << codec, calc, net >>
    /\ pc = "open"
    /\ \E answer \in IF Unwrap(rx.hdr).sender \in DOMAIN peers THEN {NoAnswer}
                     ELSE DirAnswers(Unwrap(rx.hdr).sender) :
       \E o \in {OpenDelivery(Unwrap(rx.hdr), Unwrap(rx.payload), answer)} :
             /\ peers' = o.peers
             /\ rx' = [rx EXCEPT !.stage = "open", !.plain = o.plain, !.msg = o.msg]
             /\ pc' = IF o.status = "Ok" THEN "confirm" ELSE After(o.status)
             /\ result' = IF o.status = "Ok" THEN result ELSE Result("receive", o.status, << >>)
             /\ dir' = dir \o o.asked
             /\ innerFailed' = (innerFailed \/ o.status \in {"DecryptionFailed", "ParseError"})
             /\ UNCHANGED << session, out, built, handshake, attempts, sealed, opened,
                             sealReuse, openReuse, hsFailed, rxFailed >>

\* match msg { Message::TypingNotification | Message::DeliveryReceipt(_, _) => {} _ => .. }
NeedsReceiptAlways(msg) == TRUE

NeedsReceipt(msg) == msg.tag \notin {TypingNotification, DeliveryReceipt}

\* Threema::confirm_receipt
ReceiptBodyAsText(msg_id) == MessageSerialize(Message(Text, << msg_id >>))

ReceiptBody(msg_id) == MessageSerialize(Message(DeliveryReceipt, << Delivered, msg_id >>))

ConfirmReceipt(receiver, msg_id, answer, d) ==
    SendMessage(receiver, ReceiptBody(msg_id), answer, d)

ServerMessage(msg_id, sender, data) == [msg_id |-> msg_id, sender |-> sender, data |-> data]

\* the receipt, if the message asks for one, and the return
ReceiveConfirm ==
    /\ UNCHANGED << codec, calc, net >>
    /\ pc = "confirm"
    /\ LET hdr == Unwrap(rx.hdr)
           msg == Unwrap(rx.msg)
           ret == Result("receive", "Ok", << ServerMessage(hdr.msg_id, hdr.sender, msg) >>)
       IN  IF NeedsReceipt(msg)
           THEN \E d \in Draws :
                \E r \in {ConfirmReceipt(hdr.sender, hdr.msg_id, NoAnswer, d)} :
                      /\ peers' = r.peers
                      /\ client_nonce' = r.client_nonce
                      /\ out' = out \o r.frames
                      /\ built' = r.built
                      /\ sealReuse' = (sealReuse \/ r.seals \cap sealed # {})
                      /\ sealed' = sealed \cup r.seals
                      /\ result' = IF r.status = "Ok" THEN ret
                                   ELSE Result("receive", r.status, << >>)
                      /\ pc' = After(r.status)
                      /\ dir' = dir \o r.asked
           ELSE /\ result' = ret
                /\ pc' = After("Ok")
                /\ UNCHANGED << peers, client_nonce, out, built, sealReuse, sealed, dir >>
    /\ rx' = [rx EXCEPT !.stage = "confirm"]
    /\ UNCHANGED << server_nonce, server_pubkey, ephemeral_private_key, conn, handshake,
                    attempts, opened, openReuse, hsFailed, rxFailed, innerFailed >>

\* the caller takes what the call returned
Return ==
    /\ UNCHANGED << codec, calc, net >>
    /\ pc = "returned"
    /\ pc' = "idle"
    /\ result' = NoResult
    /\ rx' = NoRx
    /\ out' = << >>
    /\ built' = NoBuilt
    /\ handshake' = NoHandshake
    /\ dir' = << >>
    /\ UNCHANGED << session, peers, attempts, history >>

Next ==
    \/ Return
    \/ Connect
    \/ SendTextMessage
    \/ ReceivePacketCall
    \/ Receive
    \/ ReceiveSendAck
    \/ ReceiveOpen
    \/ ReceiveConfirm

Spec == Init /\ [][Next]_vars

(***************************************************************************)
(* The flat codec in general (flat-bytes, flat-bytes-derive).  A schema    *)
(* type is a record with its kind; a value of it is a number (int), a      *)
(* boolean (bool), a sequence of element values (array), a sequence of     *)
(* field values (struct), [variant, f] with the position of the variant    *)
(* and its field values (enum), or a byte string (text).                   *)
(***************************************************************************)
TInt(w) == [kind |-> "int", width |-> w]
TBool == [kind |-> "bool"]
TArray(n, t) == [kind |-> "array", n |-> n, elem |-> t]
TStruct(ts) == [kind |-> "struct", fields |-> ts]
\* a variant: its explicit discriminant, if any, and the types of its fields
Variant(d, ts) == [disc |-> d, fields |-> ts]
TEnum(w, vs) == [kind |-> "enum", repr |-> w, variants |-> vs]
TText == [kind |-> "text"]

EnumValue(k, f) == [variant |-> k, f |-> f]

\* Option<(Self, usize)>, or the panic of a slice index out of range
SomeOut(v, size) == [tag |-> "Some", v |-> v, size |-> size]
NoneOut == [tag |-> "None"]
PanicOut == [tag |-> "Panic"]

\* let mut last_idx = 0; d = the literal, or last_idx + 1; last_idx = d
RECURSIVE DiscriminantsFrom(_, _)
DiscriminantsFrom(vs, last_idx) ==
    IF Len(vs) = 0 THEN << >>
    ELSE LET d == IF IsSome(vs[1].disc) THEN Unwrap(vs[1].disc) ELSE last_idx + 1
         IN  << d >> \o DiscriminantsFrom(Tail(vs), d)

Discriminants(vs) == DiscriminantsFrom(vs, 0)

\* match idx { d1 => .., d2 => .., _ => None }: the first arm that matches,
\* 0 when none does
MatchVariantOrFirst(idx, ds) ==
    IF \E i \in 1..Len(ds) : ds[i] = idx
    THEN CHOOSE i \in 1..Len(ds) : ds[i] = idx /\ \A j \in 1..(i - 1) : ds[j] # idx
    ELSE 1

MatchVariant(idx, ds) ==
    IF \E i \in 1..Len(ds) : ds[i] = idx
    THEN CHOOSE i \in 1..Len(ds) : ds[i] = idx /\ \A j \in 1..(i - 1) : ds[j] # idx
    ELSE 0

RoundUp(n, a) == ((n + a - 1) \div a) * a

\* std::mem::size_of and align_of on a 64-bit target: a struct takes its
\* fields and the padding to its alignment, a #[repr(uN)] enum the largest of
\* its variants laid out as (tag, fields..) in declared order, a String 24 bytes
RECURSIVE AlignOf(_)
RECURSIVE MaxAlign(_)
RECURSIVE SizeOf(_)
RECURSIVE SumSizes(_)
RECURSIVE LaidOut(_, _)
RECURSIVE MaxVariant(_, _)

MaxAlign(ts) ==
    IF Len(ts) = 0 THEN 1
    ELSE LET a == AlignOf(ts[1])
             b == MaxAlign(Tail(ts))
         IN  IF a > b THEN a ELSE b

AlignOf(t) ==
    CASE t.kind = "int" -> t.width
      [] t.kind = "bool" -> 1
      [] t.kind = "array" -> AlignOf(t.elem)
      [] t.kind = "struct" -> MaxAlign(t.fields)
      [] t.kind = "enum" ->
           LET a == MaxAlign([i \in 1..Len(t.variants) |-> TStruct(t.variants[i].fields)])
           IN  IF a > t.repr THEN a ELSE t.repr
      [] t.kind = "text" -> 8

SumSizes(ts) == IF Len(ts) = 0 THEN 0 ELSE SizeOf(ts[1]) + SumSizes(Tail(ts))

\* the end of the fields ts laid out in order from offset off
LaidOut(ts, off) ==
    IF Len(ts) = 0 THEN off
    ELSE LaidOut(Tail(ts), RoundUp(off, AlignOf(ts[1])) + SizeOf(ts[1]))

MaxVariant(vs, w) ==
    IF Len(vs) = 0 THEN w
    ELSE LET a == LaidOut(vs[1].fields, w)
             b == MaxVariant(Tail(vs), w)
         IN  IF a > b THEN a ELSE b

SizeOf(t) ==
    CASE t.kind = "int" -> t.width
      [] t.kind = "bool" -> 1
      [] t.kind = "array" -> t.n * SizeOf(t.elem)
      [] t.kind = "struct" -> RoundUp(SumSizes(t.fields), AlignOf(t))
      [] t.kind = "enum" -> RoundUp(MaxVariant(t.variants, t.repr), AlignOf(t))
      [] t.kind = "text" -> 24

RECURSIVE FlatSerialize(_, _)
RECURSIVE SerializeFields(_, _)

\* res.append(&mut <ty as Flat>::serialize(field)) for each field in order
SerializeFields(ts, vs) ==
    IF Len(ts) = 0 THEN << >>
    ELSE FlatSerialize(ts[1], vs[1]) \o SerializeFields(Tail(ts), Tail(vs))

\* Flat::serialize
FlatSerialize(t, v) ==
    CASE t.kind = "int" -> LEBytes(v, t.width)
      [] t.kind = "bool" -> LEBytes(IF v THEN 1 ELSE 0, 1)
      [] t.kind = "array" -> SerializeFields([i \in 1..t.n |-> t.elem], v)
      [] t.kind = "struct" -> SerializeFields(t.fields, v)
      [] t.kind = "enum" ->
           LEBytes(Discriminants(t.variants)[v.variant], t.repr)
             \o SerializeFields(t.variants[v.variant].fields, v.f)
      [] t.kind = "text" -> TextSerialize(v)

RECURSIVE FlatDeserialize(_, _)
RECURSIVE ArrayStep(_, _, _, _, _)
RECURSIVE FieldsStep(_, _, _, _)

\* impl_array! @step: element idx is T::deserialize(&data[size_of::<T>() * idx ..])?,
\* the consumed count is size_of::<[T; n]>()
ArrayStep(t, data, idx, n, acc) ==
    IF idx = n THEN SomeOut(acc, n * SizeOf(t))
    ELSE IF SizeOf(t) * idx > Len(data) THEN PanicOut
    ELSE LET e == FlatDeserialize(t, Drop(data, SizeOf(t) * idx))
         IN  IF e.tag # "Some" THEN e
             ELSE ArrayStep(t, data, idx + 1, n, Append(acc, e.v))

\* let f = <ty>::deserialize_with_size(data)?; total += f.1; let data = &data[f.1..];
FieldsStep(ts, data, acc, total) ==
    IF Len(ts) = 0 THEN SomeOut(acc, total)
    ELSE LET f == FlatDeserialize(ts[1], data)
         IN  IF f.tag # "Some" THEN f
             ELSE IF f.size > Len(data) THEN PanicOut
             ELSE FieldsStep(Tail(ts), Drop(data, f.size), Append(acc, f.v), total + f.size)

\* Flat::deserialize_with_size
FlatDeserialize(t, data) ==
    CASE t.kind = "int" ->
           IF Len(data) < t.width THEN NoneOut
           ELSE SomeOut(FromLE(Take(data, t.width)), t.width)
      [] t.kind = "bool" ->
           IF Len(data) < 1 THEN NoneOut ELSE SomeOut(data[1] # 0, 1)
      [] t.kind = "array" -> ArrayStep(t.elem, data, 0, t.n, << >>)
      [] t.kind = "struct" -> FieldsStep(t.fields, data, << >>, 0)
      [] t.kind = "enum" ->
           IF Len(data) < t.repr THEN NoneOut
           ELSE LET idx == FromLE(Take(data, t.repr))
                    k   == MatchVariant(idx, Discriminants(t.variants))
                IN  IF k = 0 THEN NoneOut
                    ELSE LET r == FieldsStep(t.variants[k].fields, Drop(data, t.repr),
                                             << >>, t.repr)
                         IN  IF r.tag # "Some" THEN r
                             ELSE SomeOut(EnumValue(k, r.v), r.size)
      [] t.kind = "text" ->
           IF Utf8Valid(data) THEN SomeOut(data, Len(data)) ELSE NoneOut

(***************************************************************************)
(* The schema types of the tests of flat-bytes and of packets.rs.          *)
(***************************************************************************)
U8 == TInt(1)
U16 == TInt(2)
U32 == TInt(4)
U64 == TInt(8)

\* tests::Foo: Bar = 1, Baz(bool) = 3, Blubb{a: bool, b: u8}
Foo == TEnum(1, << Variant(Some(1), << >>), Variant(Some(3), << TBool >>),
                   Variant(None, << TBool, U8 >>) >>)
\* tests::Header {magic: [u8; 2], size: u16, admin: bool}
TestHeader == TStruct(<< TArray(2, U8), U16, TBool >>)
\* tests::Wrapper(Foo)
Wrapper == TStruct(<< Foo >>)
\* tests::FOO: [u16; 4]
FooArray == TArray(4, U16)
\* an enum none of whose variants has an explicit discriminant
Plain == TEnum(1, << Variant(None, << >>), Variant(None, << TBool >>), Variant(None, << >>) >>)
\* ThreemaID, MessageID
ID8 == TStruct(<< TArray(IDLEN, U8) >>)
\* packets.rs Header
HeaderSchema ==
    TStruct(<< ID8, ID8, ID8, U32, U32, TArray(NICKLEN, U8), TArray(NONCEBYTES, U8) >>)
\* packets.rs Packet
PacketSchemaSharedAckTag ==
    TEnum(4, << Variant(Some(EchoRequest), << U64 >>),
                Variant(Some(EchoReply), << U64 >>),
                Variant(Some(ClientToServer), << HeaderSchema >>),
                Variant(Some(ServerToClient), << HeaderSchema >>),
                Variant(Some(ServerAck), << ID8, ID8 >>),
                Variant(Some(ServerAck), << ID8, ID8 >>),
                Variant(Some(ConnectionEstablished), << >>),
                Variant(Some(DublicateConnection), << >>),
                Variant(Some(Alert), << >>) >>)

PacketSchema ==
    TEnum(4, << Variant(Some(EchoRequest), << U64 >>),
                Variant(Some(EchoReply), << U64 >>),
                Variant(Some(ClientToServer), << HeaderSchema >>),
                Variant(Some(ServerToClient), << HeaderSchema >>),
                Variant(Some(ServerAck), << ID8, ID8 >>),
                Variant(Some(ClientAck), << ID8, ID8 >>),
                Variant(Some(ConnectionEstablished), << >>),
                Variant(Some(DublicateConnection), << >>),
                Variant(Some(Alert), << >>) >>)
\* packets.rs MessageStatus
MessageStatusSchema ==
    TEnum(1, << Variant(Some(Delivered), << >>), Variant(None, << >>), Variant(None, << >>),
                Variant(None, << >>) >>)
\* packets.rs Message, the variants up to Image and the last two
MessageSchema ==
    TEnum(1, << Variant(Some(Text), << TText >>), Variant(None, << >>),
                Variant(Some(DeliveryReceipt), << MessageStatusSchema, ID8 >>),
                Variant(Some(TypingNotification), << >>) >>)

Input(t, v) == [schema |-> t, value |-> v]

\* the values handed to serialize
CodecInputs ==
    << Input(U8, 0), Input(U8, 255), Input(U16, 123), Input(U16, 65535), Input(U32, 1),
       Input(U32, 1700000000), Input(U64, 7), Input(TBool, TRUE), Input(TBool, FALSE),
       Input(TArray(0, U8), << >>), Input(TArray(2, U8), << 65, 66 >>),
       Input(FooArray, << 1, 2, 3, 4 >>), Input(TArray(2, TBool), << TRUE, FALSE >>),
       Input(TArray(2, TArray(2, U8)), << << 1, 2 >>, << 3, 4 >> >>),
       Input(TStruct(<< >>), << >>),
       Input(TestHeader, << << 65, 66 >>, 123, TRUE >>),
       Input(Wrapper, << EnumValue(1, << >>) >>),
       Input(Foo, EnumValue(1, << >>)), Input(Foo, EnumValue(2, << TRUE >>)),
       Input(Foo, EnumValue(2, << FALSE >>)), Input(Foo, EnumValue(3, << TRUE, 1 >>)),
       Input(Foo, EnumValue(3, << FALSE, 2 >>)),
       Input(Plain, EnumValue(1, << >>)), Input(Plain, EnumValue(2, << TRUE >>)),
       Input(Plain, EnumValue(3, << >>)),
       Input(TArray(2, Foo), << EnumValue(3, << TRUE, 1 >>), EnumValue(3, << FALSE, 2 >>) >>),
       Input(TArray(2, Foo), << EnumValue(1, << >>), EnumValue(1, << >>) >>),
       Input(TArray(2, Foo), << EnumValue(1, << >>), EnumValue(3, << TRUE, 1 >>) >>),
       Input(TArray(3, Foo), << EnumValue(1, << >>), EnumValue(1, << >>), EnumValue(1, << >>) >>),
       Input(TArray(2, TStruct(<< U8, U16 >>)), << << 1, 2 >>, << 3, 4 >> >>),
       Input(ID8, << PeerB >>),
       Input(HeaderSchema, << << id >>, << PeerB >>, << Rep(IDLEN, 0) >>, 1700000000, 1,
                              GetNickname, Rep(NONCEBYTES, 3) >>),
       Input(PacketSchema, EnumValue(1, << 7 >>)),
       Input(PacketSchema, EnumValue(6, << << PeerB >>, << Rep(IDLEN, 0) >> >>)),
       Input(PacketSchema, EnumValue(7, << >>)),
       Input(PacketSchema, EnumValue(9, << >>)),
       Input(MessageStatusSchema, EnumValue(1, << >>)),
       Input(MessageStatusSchema, EnumValue(4, << >>)),
       Input(MessageSchema, EnumValue(1, << << 104, 105 >> >>)),
       Input(MessageSchema, EnumValue(1, << << >> >>)),
       Input(MessageSchema, EnumValue(2, << >>)),
       Input(MessageSchema, EnumValue(3, << EnumValue(1, << >>), << Rep(IDLEN, 0) >> >>)),
       Input(MessageSchema, EnumValue(4, << >>)),
       Input(PacketSchema, EnumValue(2, << 9 >>)),
       Input(PacketSchema, EnumValue(3, << << << id >>, << PeerB >>, << Rep(IDLEN, 0) >>,
                                              1700000000, 1, GetNickname,
                                              Rep(NONCEBYTES, 3) >> >>)),
       Input(PacketSchema, EnumValue(4, << << << PeerB >>, << id >>, << Rep(IDLEN, 255) >>,
                                              1700000000, 0, GetNickname,
                                              Rep(NONCEBYTES, 3) >> >>)),
       Input(PacketSchema, EnumValue(5, << << PeerB >>, << Rep(IDLEN, 255) >> >>)),
       Input(PacketSchema, EnumValue(8, << >>)) >>

Raw(t, bytes) == [schema |-> t, bytes |-> bytes]

\* the byte strings handed to deserialize_with_size
RawInputs ==
    << Raw(Foo, << >>), Raw(Foo, << 0 >>), Raw(Foo, << 5 >>), Raw(Foo, << 2 >>),
       Raw(Foo, << 1 >>), Raw(Foo, << 3 >>), Raw(Foo, << 3, 0 >>), Raw(Foo, << 3, 1 >>),
       Raw(Foo, << 4, 1, 1 >>), Raw(Foo, << 4, 0, 2 >>), Raw(Foo, << 4, 1 >>),
       Raw(Foo, << 255 >>), Raw(Foo, << 1, 9 >>),
       Raw(Plain, << >>), Raw(Plain, << 0 >>), Raw(Plain, << 1 >>), Raw(Plain, << 3 >>),
       Raw(Plain, << 4 >>),
       Raw(PacketSchema, << >>), Raw(PacketSchema, << 1 >>), Raw(PacketSchema, << 208, 0, 0 >>),
       Raw(PacketSchema, << 3, 0, 0, 0 >>), Raw(PacketSchema, << 208, 1, 0, 0 >>),
       Raw(PacketSchema, << 208, 0, 0, 0 >>), Raw(PacketSchema, << 129, 0, 0, 0, 66 >>),
       Raw(MessageSchema, << >>), Raw(MessageSchema, << 0 >>), Raw(MessageSchema, << 127, 1 >>),
       Raw(MessageSchema, << 144 >>), Raw(MessageSchema, << 128, 9 >>),
       Raw(MessageStatusSchema, << 0 >>), Raw(MessageStatusSchema, << 5 >>),
       Raw(FooArray, << 1, 0, 2, 0, 3, 0, 4, 0 >>), Raw(FooArray, << 1, 0, 2 >>),
       Raw(TArray(3, Foo), << 1 >>), Raw(U16, << 1 >>), Raw(TBool, << 2 >>),
       Raw(PacketSchema, << 0, 0, 0, 0 >> \o U64LE(7)),
       Raw(PacketSchema, << 128, 0, 0, 0 >> \o U64LE(7)),
       Raw(PacketSchema, << 128, 1, 0, 0 >> \o U64LE(7)),
       Raw(PacketSchema, << 129, 0, 0, 0 >> \o PeerB \o Rep(IDLEN, 0)),
       Raw(PacketSchema, << 130, 0, 0, 0 >> \o PeerB \o Rep(IDLEN, 0)),
       Raw(PacketSchema, << 224, 0, 0, 0 >>), Raw(PacketSchema, << 225, 0, 0, 0 >>),
       Raw(PacketSchema, << 226, 0, 0, 0 >>), Raw(PacketSchema, << 0, 0, 0, 1 >> \o U64LE(7)),
       Raw(PacketSchema, << 129, 0, 0, 0 >> \o Rep(IDLEN, 97) \o Rep(IDLEN, 0)),
       Raw(PacketSchema, << 130, 0, 0, 0 >> \o Rep(IDLEN, 0) \o Rep(IDLEN, 0)),
       Raw(PacketSchema, << 2, 0, 0, 0 >> \o Rep(IDLEN, 45) \o << 65, 66, 67, 68, 69, 70, 71, 32 >>
                           \o Rep(IDLEN, 0) \o U32LE(1700000000) \o U32LE(0)
                           \o GetNickname \o Rep(NONCEBYTES, 3)),
       Raw(PacketSchema, << 2, 0, 0, 0 >> \o PeerB \o id
                           \o Rep(IDLEN, 0) \o U32LE(1700000000) \o U32LE(0)
                           \o GetNickname \o Rep(NONCEBYTES, 3)),
       Raw(ID8, Rep(IDLEN, 97)), Raw(ID8, PeerB), Raw(ID8, Rep(IDLEN - 1, 65)) >>

\* the schema type of the codec's current input
CodecSchema ==
    IF codec.mode = "raw" THEN RawInputs[codec.input].schema
    ELSE CodecInputs[codec.input].schema

\* v.serialize()
CodecSerialize ==
    /\ codec.pc = "idle"
    /\ \E i \in 1..Len(CodecInputs) :
         codec' = [pc |-> "serialized", mode |-> "value", input |-> i,
                   bytes |-> FlatSerialize(CodecInputs[i].schema, CodecInputs[i].value),
                   cut |-> FALSE, out |-> NoneOut]
    /\ UNCHANGED << session, peers, pc, rx, result, out, built, handshake, attempts,
                    history, dir, calc, net >>

\* the last byte of the serialized value is lost
CodecTruncate ==
    /\ codec.pc = "serialized"
    /\ ~codec.cut
    /\ codec.bytes # << >>
    /\ codec' = [codec EXCEPT !.bytes = Take(codec.bytes, Len(codec.bytes) - 1), !.cut = TRUE]
    /\ UNCHANGED << session, peers, pc, rx, result, out, built, handshake, attempts,
                    history, dir, calc, net >>

\* T::deserialize_with_size(&bytes) on what serialize produced
CodecDeserialize ==
    /\ codec.pc = "serialized"
    /\ codec' = [codec EXCEPT !.pc = "deserialized",
                              !.out = FlatDeserialize(CodecSchema, codec.bytes)]
    /\ UNCHANGED << session, peers, pc, rx, result, out, built, handshake, attempts,
                    history, dir, calc, net >>

\* T::deserialize_with_size(&bytes) on bytes from elsewhere
CodecDeserializeRaw ==
    /\ codec.pc = "idle"
    /\ \E i \in 1..Len(RawInputs) :
         codec' = [pc |-> "deserialized", mode |-> "raw", input |-> i,
                   bytes |-> RawInputs[i].bytes, cut |-> FALSE,
                   out |-> FlatDeserialize(RawInputs[i].schema, RawInputs[i].bytes)]
    /\ UNCHANGED << session, peers, pc, rx, result, out, built, handshake, attempts,
                    history, dir, calc, net >>

\* bytes that follow a serialized value in the same buffer
Tails == {<< 0 >>, << 1, 1 >>, << 255, 1, 3 >>}

\* T::deserialize_with_size(&bytes) on serialize(v) followed by further bytes
CodecDeserializeTrailing ==
    /\ codec.pc = "serialized"
    /\ codec.mode = "value"
    /\ ~codec.cut
    /\ \E t \in Tails :
         codec' = [codec EXCEPT !.pc = "deserialized", !.mode = "trailing",
                                !.bytes = codec.bytes \o t,
                                !.out = FlatDeserialize(CodecSchema, codec.bytes \o t)]
    /\ UNCHANGED << session, peers, pc, rx, result, out, built, handshake, attempts,
                    history, dir, calc, net >>

CodecNext ==
    \/ CodecSerialize
    \/ CodecTruncate
    \/ CodecDeserialize
    \/ CodecDeserializeTrailing
    \/ CodecDeserializeRaw

CodecSpec == Init /\ [][CodecNext]_vars

(***************************************************************************)
(* identity.rs: the backup decoder.  A string is a sequence of characters, *)
(* a character a string of length one.                                     *)
(***************************************************************************)
program == << session, peers, pc, rx, result, out, built, handshake, attempts, history, dir >>

LowerLetters ==
    << "a", "b", "c", "d", "e", "f", "g", "h", "i", "j", "k", "l", "m",
       "n", "o", "p", "q", "r", "s", "t", "u", "v", "w", "x", "y", "z" >>
UpperLetters ==
    << "A", "B", "C", "D", "E", "F", "G", "H", "I", "J", "K", "L", "M",
       "N", "O", "P", "Q", "R", "S", "T", "U", "V", "W", "X", "Y", "Z" >>
\* let alphabet = "ABCDEFGHIJKLMNOPQRSTUVWXYZ234567";
Base32Alphabet == UpperLetters \o << "2", "3", "4", "5", "6", "7" >>

\* c.to_uppercase().next().unwrap()
ToUppercase(c) ==
    IF \E i \in 1..26 : LowerLetters[i] = c
    THEN UpperLetters[CHOOSE i \in 1..26 : LowerLetters[i] = c]
    ELSE c

\* match c { '0' => 'O', '1' => 'I', c => upper-case of c }
MapCharUpperOnly(c) == ToUppercase(c)

MapChar(c) ==
    IF c = "0" THEN "O"
    ELSE IF c = "1" THEN "I"
    ELSE ToUppercase(c)

\* alphabet.find(c): the position from 0, None when c is not in the alphabet
AlphabetFind(c) ==
    IF \E i \in 1..32 : Base32Alphabet[i] = c
    THEN Some((CHOOSE i \in 1..32 : Base32Alphabet[i] = c) - 1)
    ELSE None

\* u8 arithmetic: a << n, a >> n, a | b
Pow2(n) == IF n = 0 THEN 1 ELSE IF n = 1 THEN 2 ELSE IF n = 2 THEN 4 ELSE IF n = 3 THEN 8
           ELSE IF n = 4 THEN 16 ELSE IF n = 5 THEN 32 ELSE IF n = 6 THEN 64 ELSE 128
Shl8(a, n) == (a * Pow2(n)) % 256
Shr8(a, n) == a \div Pow2(n)
RECURSIVE BitOr(_, _)
BitOr(a, b) ==
    IF a = 0 THEN b
    ELSE IF b = 0 THEN a
    ELSE (IF a % 2 = 1 \/ b % 2 = 1 THEN 1 ELSE 0) + 2 * BitOr(a \div 2, b \div 2)
RECURSIVE BitXor(_, _)
BitXor(a, b) ==
    IF a = 0 THEN b
    ELSE IF b = 0 THEN a
    ELSE (IF a % 2 # b % 2 THEN 1 ELSE 0) + 2 * BitXor(a \div 2, b \div 2)

\* the loop of base32 over the characters left, with skip, byte and out
RECURSIVE Base32Loop(_, _, _, _)
Base32Loop(input, skip, byte, acc) ==
    IF Len(input) = 0 THEN Some(acc)
    ELSE LET found == AlphabetFind(MapChar(input[1]))
         IN  IF IsNone(found) THEN None
             ELSE LET val   == Shl8(Unwrap(found), 3)
                      byte1 == BitOr(byte, Shr8(val, skip))
                      skip1 == skip + 5
                  IN  IF skip1 >= 8
                      THEN Base32Loop(Tail(input), skip1 - 8,
                                      IF skip1 - 8 > 0 THEN Shl8(val, 5 - (skip1 - 8)) ELSE 0,
                                      Append(acc, byte1))
                      ELSE Base32Loop(Tail(input), skip1, byte1, acc)

\* the loop run on the two halves of a long input: after every eight
\* characters skip is 0 and byte is 0 again, as at the start, so that the
\* loop over a part that starts at a multiple of eight starts from (0, 0)
RECURSIVE Base32Chunks(_)
Base32Chunks(input) ==
    IF Len(input) <= 8 THEN Base32Loop(input, 0, 0, << >>)
    ELSE LET cut  == 8 * ((Len(input) + 15) \div 16)
             head == Base32Chunks(Take(input, cut))
         IN  IF IsNone(head) THEN None
             ELSE LET rest == Base32Chunks(Drop(input, cut))
                  IN  IF IsNone(rest) THEN None
                      ELSE Some(Unwrap(head) \o Unwrap(rest))

\* fn base32(input: &str) -> Option<Vec<u8>>
Base32(input) == Base32Chunks(input)

\* identity.replace('-', "")
NotDash(c) == c # "-"
RemoveDashes(str) == SelectSeq(str, NotDash)

\* the characters of the backup strings that are tried in every combination
MaxBackupLen == 3
BackupChars == {"-", "a", "H", "0", "1", "7", "8", "z"}
ShortBackups == UNION {[1..n -> BackupChars] : n \in 0..MaxBackupLen}
\* longer backup strings: RFC 4648 vectors with dashes, lower case, 0 and 1
LongBackups ==
    { << "m", "z", "x", "w", "-", "6", "y", "t", "b" >>,
      << "M", "F", "R", "G", "G", "Z", "D", "F" >>,
      << "M", "Z", "X", "W", "6", "Y", "Q" >>,
      << "0", "1", "o", "i", "-", "7", "7", "7", "7", "2" >>,
      << "M", "Z", "X", "W", "6", "Y", "T", "B", "m", "y" >>,
      << "M", "Z", "X", "W", "=", "Y", "T", "B" >> }

\* decrypt, its first two lines: the dashes removed, then base32
CalcBase32 ==
    /\ calc.pc = "idle"
    /\ \E str \in ShortBackups \cup LongBackups :
         \E r \in {Base32(RemoveDashes(str))} :
            calc' = [pc |-> "done", op |-> "base32", input |-> str,
                     out |-> IF IsSome(r) THEN [tag |-> "Some", v |-> Unwrap(r)]
                             ELSE [tag |-> "None"]]
    /\ UNCHANGED << program, codec, net >>

RECURSIVE Sum(_)
Sum(bs) ==
    IF Len(bs) = 0 THEN 0
    ELSE IF Len(bs) = 1 THEN bs[1]
    ELSE Sum(Take(bs, Len(bs) \div 2)) + Sum(Drop(bs, Len(bs) \div 2))

\* pbkdf2::<Hmac<Sha256>>(password, salt, 100_000, &mut key): the key is a
\* number that depends on the password and on the salt
Pbkdf2(passphrase, saltbytes) ==
    (3 * Sum(passphrase) + Sum(saltbytes) + Len(passphrase)) % 256

\* xsalsa20::stream_xor(data, nonce 0, key): every byte xor a key stream byte
StreamXor(data, k) == [i \in 1..Len(data) |-> BitXor(data[i], (k + 29 * i) % 256)]

\* the first two bytes of the SHA-256 of identity and private key
Sha256Head(name, secret) ==
    << (Sum(name) + 7 * Sum(secret) + 1) % 256, (3 * Sum(name) + Sum(secret) + 5) % 256 >>

DecryptOut(tag, name, secret) == [tag |-> tag, identity |-> name, private_key |-> secret]

\* a.split_at(n) panics when n > a.len()
\* pub fn decrypt(identity: &str, password: &str) -> Option<(String, Vec<u8>)>
Decrypt(identity, password) ==
    LET decoded == Base32(RemoveDashes(identity))
    IN  IF IsNone(decoded) THEN DecryptOut("None", << >>, << >>)
        ELSE IF Len(Unwrap(decoded)) < 8 THEN DecryptOut("Panic", << >>, << >>)
        ELSE
          LET salt  == Take(Unwrap(decoded), 8)
              plain == StreamXor(Drop(Unwrap(decoded), 8), Pbkdf2(password, salt))
          IN  IF Len(plain) < 8 + 32 THEN DecryptOut("Panic", << >>, << >>)
              ELSE
                LET ident    == Take(plain, 8)
                    key      == SubSeq(plain, 9, 40)
                    expected == Drop(plain, 40)
                    hash     == Sha256Head(ident, key)
                IN  IF Len(expected) < 1 THEN DecryptOut("Panic", << >>, << >>)
                    ELSE IF expected[1] # hash[1] THEN DecryptOut("None", << >>, << >>)
                    ELSE IF Len(expected) < 2 THEN DecryptOut("Panic", << >>, << >>)
                    ELSE IF expected[2] # hash[2] THEN DecryptOut("None", << >>, << >>)
                    ELSE IF ~Utf8Valid(ident) THEN DecryptOut("None", << >>, << >>)
                    ELSE DecryptOut("Some", ident, key)

\* Threema::from_backup: decrypt(..).ok_or(InvalidBackupOrPassword)?, then
\* ThreemaID::from_string(&id)? and Threema::new
FromBackup(data, password) ==
    LET d == Decrypt(data, password)
    IN  IF d.tag = "Panic" THEN "panic"
        ELSE IF d.tag = "None" THEN "InvalidBackupOrPassword"
        ELSE IF IsNone(ThreemaIDFromSlice(d.identity)) THEN "InvalidID"
        ELSE IF Len(d.private_key) # 32 THEN "InvalidPrivateKey"
        ELSE "Ok"

\* the base32 text of bytes: 5 bits a character, the last one filled with 0
ByteBit(bytes, j) ==
    IF (j \div 8) + 1 > Len(bytes) THEN 0
    ELSE (bytes[(j \div 8) + 1] \div Pow2(7 - (j % 8))) % 2
Base32Text(bytes) ==
    [k \in 1..((8 * Len(bytes) + 4) \div 5) |->
        Base32Alphabet[1 + 16 * ByteBit(bytes, 5 * (k - 1)) + 8 * ByteBit(bytes, 5 * (k - 1) + 1)
                         + 4 * ByteBit(bytes, 5 * (k - 1) + 2) + 2 * ByteBit(bytes, 5 * (k - 1) + 3)
                         + ByteBit(bytes, 5 * (k - 1) + 4)]]

\* password.as_bytes()
Passwords == {<< 112, 119 >>, << 120 >>}
BackupSalt == << 1, 2, 3, 4, 5, 6, 7, 8 >>
BackupKey == Rep(32, 11)

\* the decoded bytes of the backup of an identity under a password
BackupBytes(identity, password) ==
    BackupSalt \o StreamXor(identity \o BackupKey \o Sha256Head(identity, BackupKey),
                            Pbkdf2(password, BackupSalt))

\* backups of a valid identity, of identities that from_string or from_utf8
\* refuse, and backups cut short
MadeBackups ==
    { Base32Text(BackupBytes(id, << 112, 119 >>)),
      << "-" >> \o Base32Text(BackupBytes(PeerB, << 120 >>)),
      Base32Text(BackupBytes(Rep(IDLEN, 97), << 112, 119 >>)),
      Base32Text(BackupBytes(Rep(IDLEN, 255), << 112, 119 >>)),
      Base32Text(Take(BackupBytes(id, << 112, 119 >>), 8)),
      Base32Text(Take(BackupBytes(id, << 112, 119 >>), 20)),
      Base32Text(Take(BackupBytes(id, << 112, 119 >>), 48)),
      Base32Text(Take(BackupBytes(id, << 112, 119 >>), 49)),
      Base32Text(BackupBytes(id, << 112, 119 >>) \o << 0, 0 >>) }

\* Threema::from_backup(data, password)
CalcFromBackup ==
    /\ calc.pc = "idle"
    /\ \E str \in ShortBackups \cup LongBackups \cup MadeBackups, password \in Passwords :
         \E r \in {FromBackup(str, password)} :
            calc' = [pc |-> IF r = "panic" THEN "panicked" ELSE "done",
                     op |-> "from_backup",
                     input |-> [data |-> str, password |-> password],
                     out |-> [tag |-> r]]
    /\ UNCHANGED << program, codec, net >>

\* the payload lengths handed to send: small ones, and those around the
\* largest sealed length that two bytes can hold
SendLens == {0, 1, 92, 65519, 65520, 65521}

\* Threema::send(data) on a connected session: what it writes, the two-byte
\* prefix and the number of sealed bytes after it
CalcSend ==
    /\ calc.pc = "idle"
    /\ \E n \in SendLens :
         \E data \in {Payload(Rep(n, 0), None)} :
            calc' = [pc |-> "done", op |-> "send", input |-> n,
                     out |-> [prefix |-> LEBytes(SealedLen(data), 2),
                              sealed |-> PayloadLen(data) + MACBYTES]]
    /\ UNCHANGED << program, codec, net >>

\* a u64 as its 8 bytes, least significant first: the next value, and << >>
\* when there is none in 64 bits
RECURSIVE U64Add1(_)
U64Add1(bytes) ==
    IF Len(bytes) = 0 THEN << >>
    ELSE IF bytes[1] < 255 THEN << bytes[1] + 1 >> \o Tail(bytes)
    ELSE LET rest == U64Add1(Tail(bytes))
         IN  IF rest = << >> THEN << >> ELSE << 0 >> \o rest

\* self.counter += 1 on a u64: the next value; at u64::MAX a build with
\* overflow checks panics and a build without them wraps to 0
CounterIncOutcomes(bytes) ==
    IF U64Add1(bytes) # << >> THEN {[tag |-> "ok", counter |-> U64Add1(bytes)]}
    ELSE {[tag |-> "panic", counter |-> bytes], [tag |-> "ok", counter |-> Rep(8, 0)]}

\* the counters a nonce is incremented from: the one Nonce::new sets, and
\* values at the byte boundaries up to u64::MAX
NonceCounters ==
    {U64LE(NonceNew(Rep(PREFIXLEN, 7)).counter), U64LE(2), U64LE(255), U64LE(65535),
     << 255, 255, 255, 255, 0, 0, 0, 0 >>, << 254, 255, 255, 255, 255, 255, 255, 255 >>,
     Rep(8, 255)}

\* as_bytes(), inc(), as_bytes() on a nonce with the given prefix and counter
CalcNonceInc ==
    /\ calc.pc = "idle"
    /\ \E prefix \in {Rep(PREFIXLEN, 7), Rep(PREFIXLEN, 255)}, c \in NonceCounters :
         \E r \in CounterIncOutcomes(c) :
            calc' = [pc |-> IF r.tag = "panic" THEN "panicked" ELSE "done",
                     op |-> "nonce_inc", input |-> [prefix |-> prefix, counter |-> c],
                     out |-> [before |-> prefix \o c, after |-> prefix \o r.counter]]
    /\ UNCHANGED << program, codec, net >>

\* the caller takes the result
\* the message bodies handed to send_message: texts, a receipt, a typing
\* notification
PadBodies ==
    {MessageSerialize(Message(Text, << t >>)) : t \in Texts \cup {<< 65, 1 >>, << 2 >>}}
      \cup {MessageSerialize(Message(DeliveryReceipt, << Delivered, m >>)) :
               m \in {Rep(IDLEN, 0), Rep(IDLEN, 255)}}
      \cup {MessageSerialize(Message(TypingNotification, << >>))}

\* send_message pads the body with a pad drawn by randombytes_uniform(32);
\* receive strips the padding of the opened body and decodes the message
CalcPadStrip ==
    /\ calc.pc = "idle"
    /\ \E data \in PadBodies, pad \in 0..(UNIFORM_BOUND - 1) :
       \E stripped \in {StripPadding(Pad(data, pad))} :
          calc' = [pc |-> IF IsNone(stripped) THEN "panicked" ELSE "done",
                   op |-> "pad_strip",
                   input |-> [data |-> data, pad |-> pad],
                   out |-> [stripped |-> stripped,
                            msg |-> IF IsNone(stripped) THEN None
                                    ELSE MessageDeserialize(Unwrap(stripped))]]
    /\ UNCHANGED << program, codec, net >>

CalcReturn ==
    /\ calc.pc = "done"
    /\ calc' = CalcIdle
    /\ UNCHANGED << program, codec, net >>

CalcNext ==
    \/ CalcBase32
    \/ CalcFromBackup
    \/ CalcSend
    \/ CalcNonceInc
    \/ CalcPadStrip
    \/ CalcReturn

CalcSpec == Init /\ [][CalcNext]_vars

(***************************************************************************)
(* Two sessions, 1 with the identity id and 2 with the identity PeerB,     *)
(* both connected and both calling receive() in a loop, and the server     *)
(* between them: it answers every ClientToServer frame with a ServerAck to *)
(* its sender and a ServerToClient delivery to its receiver, and answers   *)
(* nothing to a ClientAck.  net.inbox[c] is what the server has queued for *)
(* session c; net.frames[c] counts the frames session c has written.       *)
(***************************************************************************)
MaxUserMessages == 2

MaxFrames == 4 * MaxUserMessages + 4

Sessions == {1, 2}
IdOf(c) == IF c = 1 THEN id ELSE PeerB
SessionOf(ident) == IF ident = id THEN 1 ELSE 2

\* the pad and the message id one send_message draws
NetDraws ==
    {[pad |-> 0, msg_id |-> Rep(IDLEN, 0)], [pad |-> 1, msg_id |-> Rep(IDLEN, 48)],
     [pad |-> UNIFORM_BOUND - 1, msg_id |-> Rep(IDLEN, 0)]}

NetHeader(sender, receiver, msg_id) ==
    [sender |-> sender, receiver |-> receiver, msg_id |-> msg_id, timestamp |-> 1700000000,
     flags |-> 1, nickname |-> Rep(NICKLEN, 0), nonce |-> Rep(NONCEBYTES, 3)]

\* what the server queues for one ClientToServer frame of session c: the
\* ServerAck for c and the delivery for the receiver
Relayed(inbox, c, receiver, msg_id, padded) ==
    LET ack      == [packet |-> Packet(ServerAck, << receiver, msg_id >>), body |-> << >>]
        delivery == [packet |-> Packet(ServerToClient,
                                       << NetHeader(IdOf(c), receiver, msg_id) >>),
                     body |-> padded]
        to       == SessionOf(receiver)
    IN  [x \in Sessions |->
           (IF x = c THEN Append(inbox[x], ack) ELSE inbox[x])
             \o (IF x = to THEN << delivery >> ELSE << >>)]

\* the user of session c calls send_text_message for the other session
NetSendText ==
    /\ \E c \in Sessions, message \in Texts, d \in NetDraws :
         /\ net.alive[c]
         /\ net.user[1] + net.user[2] < MaxUserMessages
         /\ net' = [net EXCEPT
                      !.inbox = Relayed(net.inbox, c, IdOf(3 - c), d.msg_id,
                                        Pad(MessageSerialize(Message(Text, << message >>)),
                                            d.pad)),
                      !.frames[c] = @ + 1,
                      !.user[c] = @ + 1,
                      !.last = [client |-> c, kind |-> "user", sent |-> 1]]
    /\ UNCHANGED << program, codec, calc >>

\* one turn of the loop of receive() in session c: the next packet of the
\* server, the ack, the padding, the decoding and the receipt
NetReceive ==
    /\ \E c \in Sessions, d \in NetDraws :
         /\ net.alive[c]
         /\ net.inbox[c] # << >>
         /\ net.frames[1] + net.frames[2] < MaxFrames
         /\ LET item     == Head(net.inbox[c])
                rest     == [net.inbox EXCEPT ![c] = Tail(@)]
                hdr      == item.packet.f[1]
                stripped == StripPadding(item.body)
                m        == MessageDeserialize(Unwrap(stripped))
            IN  IF AfterPacket(item.packet) # "send_ack"
                THEN net' = [net EXCEPT !.inbox = rest,
                                        !.last = [client |-> c, kind |-> "packet", sent |-> 0]]
                ELSE IF IsNone(stripped)
                THEN net' = [net EXCEPT !.inbox = rest, !.frames[c] = @ + 1,
                                        !.alive[c] = FALSE,
                                        !.last = [client |-> c, kind |-> "panic", sent |-> 0]]
                ELSE IF IsNone(m)
                THEN net' = [net EXCEPT !.inbox = rest, !.frames[c] = @ + 1,
                                        !.last = [client |-> c, kind |-> "ParseError",
                                                  sent |-> 0]]
                ELSE IF NeedsReceipt(Unwrap(m).v)
                THEN net' = [net EXCEPT
                               !.inbox = Relayed(rest, c, hdr.sender, d.msg_id,
                                                 Pad(ReceiptBody(hdr.msg_id), d.pad)),
                               !.frames[c] = @ + 2,
                               !.receipts[c] = @ + 1,
                               !.last = [client |-> c, kind |-> "message", sent |-> 1]]
                ELSE net' = [net EXCEPT !.inbox = rest, !.frames[c] = @ + 1,
                                        !.last = [client |-> c,
                                                  kind |-> IF Unwrap(m).v.tag = DeliveryReceipt
                                                           THEN "receipt" ELSE "typing",
                                                  sent |-> 0]]
    /\ UNCHANGED << program, codec, calc >>

NetNext ==
    \/ NetSendText
    \/ NetReceive

NetSpec == Init /\ [][NetNext]_vars

(***************************************************************************)
(* The claims.                                                             *)
(***************************************************************************)
Counter(nonce) == Unwrap(nonce).counter

ReturnedFrom(op, status) ==
    pc = "returned" /\ result.op = op /\ result.status = status

\* C1: within one session no two seals towards the server use the same nonce
\* counter, also when a socket write fails after the seal, and no two
\* successful opens of server frames use the same counter.
C1_CountersNeverReused == ~sealReuse /\ ~openReuse

\* C2: right after a successful connect() the client counter is 2 and the
\* server counter is 3; afterwards every frame written completely advances the
\* client counter by exactly 1 and leaves the server nonce alone, and every
\* received frame that opens advances the server counter by exactly 1 and
\* leaves the client nonce alone.
C2_CountersAfterConnectAndPerFrame ==
    /\ [](ReturnedFrom("connect", "Ok")
            => /\ IsSome(client_nonce) /\ Counter(client_nonce) = 2
               /\ IsSome(server_nonce) /\ Counter(server_nonce) = 3)
    /\ [][(attempts' = attempts /\ Completed(out') = Completed(out) + 1)
            => /\ Counter(client_nonce') = Counter(client_nonce) + 1
               /\ Unwrap(client_nonce').prefix = Unwrap(client_nonce).prefix
               /\ server_nonce' = server_nonce]_vars
    /\ [][(attempts' = attempts /\ opened' # opened)
            => /\ Counter(server_nonce') = Counter(server_nonce) + 1
               /\ Unwrap(server_nonce').prefix = Unwrap(server_nonce).prefix
               /\ client_nonce' = client_nonce]_vars

\* C2 witness: a receive() on a fresh connection has returned a message after
\* one opened frame and two written ones (the ack and the receipt).
C2_Witness ==
    /\ ReturnedFrom("receive", "Ok")
    /\ Completed(out) = 2
    /\ Counter(client_nonce) = 4
    /\ Counter(server_nonce) = 4

\* C3: a connect() that sees an echoed client prefix other than the one it
\* sent, or a final ack that opens to anything but 16 zero bytes, stores
\* nothing in the session: nonces, server key, ephemeral key and connection
\* stay as they were.
C3_RejectedHandshakeStoresNothing ==
    [][(/\ attempts' # attempts
        /\ \/ handshake'.echo # << >> /\ handshake'.echo # handshake'.sent
           \/ handshake'.ack # << >> /\ handshake'.ack # Rep(16, 0))
          => session' = session]_vars

\* C3 witness: the first connect() met an ack that opened to 16 bytes of 1,
\* and the session holds nothing.
C3_Witness ==
    /\ result.op = "connect"
    /\ handshake.ack = Rep(16, 1)
    /\ IsNone(conn) /\ IsNone(client_nonce) /\ IsNone(server_nonce)
    /\ IsNone(server_pubkey) /\ IsNone(ephemeral_private_key)

\* C4: once a handshake has failed the failure was returned as an error (the
\* process did not abort) and no later connect, send or receive succeeds.
C4_HandshakeFailureIsReturnedAndTerminal ==
    hsFailed => /\ pc # "panicked"
                /\ pc = "returned" => result.status # "Ok"

\* C5: a received transport frame that does not open under the server nonce
\* makes receive_packet return DecryptionFailed, and after it no send or
\* receive on the session succeeds.
C5_TransportOpenFailureIsFatal ==
    (/\ rxFailed
     /\ pc = "returned"
     /\ result.op \in {"send_text_message", "receive_packet", "receive"})
      => result.status # "Ok"

\* C6: receive() returns a ServerMessage only if the transport frame was
\* sealed between the server's ephemeral key and the session's ephemeral key
\* under the server nonce the session held, and the inner ciphertext was
\* sealed between the key cached for header.sender and the session's
\* long-term key under header.nonce.
C6_MessageOnlyFromTwoOpenedBoxes ==
    ReturnedFrom("receive", "Ok") =>
        /\ IsSome(rx.frame) /\ IsSome(rx.hdr) /\ IsSome(rx.payload)
        /\ Unwrap(rx.frame).keys = {Unwrap(server_pubkey), Unwrap(ephemeral_private_key)}
        /\ Unwrap(rx.frame).nonce =
               Unwrap(server_nonce).prefix \o <<Counter(server_nonce) - 1, 0, 0, 0, 0, 0, 0, 0>>
        /\ IsSome(Unwrap(rx.payload).ct)
        /\ Unwrap(rx.hdr).sender \in DOMAIN peers
        /\ Unwrap(Unwrap(rx.payload).ct).keys = {peers[Unwrap(rx.hdr).sender], private_key}
        /\ Unwrap(Unwrap(rx.payload).ct).nonce = Unwrap(rx.hdr).nonce
        /\ result.val[1].sender = Unwrap(rx.hdr).sender
        /\ result.val[1].msg_id = Unwrap(rx.hdr).msg_id

\* C6 witness: receive() has returned a text message of peer B.
C6_Witness ==
    /\ ReturnedFrom("receive", "Ok")
    /\ result.val[1].sender = PeerB
    /\ result.val[1].data.tag = 1

\* C7: the padded body send_message builds ends with a byte p in 1..32, is the
\* body followed by exactly p bytes, and each of them is p.
C7_PaddingOneTo32 ==
    built # NoBuilt =>
        LET d == built.data
            q == built.padded
        IN  /\ Len(q) > 0
            /\ q[Len(q)] \in 1..32
            /\ Len(q) = Len(d) + q[Len(q)]
            /\ \A i \in 1..Len(q) : q[i] = IF i <= Len(d) THEN d[i] ELSE q[Len(q)]

\* C8: an inbound plaintext that is empty, or whose last byte pad does not
\* satisfy 1 <= pad <= 32 <= len(plain), ends receive() with an error: the
\* process goes on, no message is decoded or returned, the session stays
\* connected.
C8_BadPaddingIsATypedError ==
    (/\ IsSome(rx.plain)
     /\ LET plain == Unwrap(rx.plain)
        IN  \/ plain = << >>
            \/ ~(1 <= plain[Len(plain)] /\ plain[Len(plain)] <= 32 /\ 32 <= Len(plain)))
      => /\ pc = "returned"
         /\ result.status \notin {"Ok", "running", "panic"}
         /\ IsNone(rx.msg)
         /\ IsSome(conn)

\* C9: when receive() has decoded a delivery, it has built one
\* DeliveryReceipt(Delivered, header.msg_id) for header.sender and written it
\* as the one frame after the ack if the message is neither a
\* TypingNotification (0x90) nor a DeliveryReceipt (0x80), and it has built
\* and written nothing after the ack if the message is one of the two.
C9_ReceiptUnlessTypingOrReceipt ==
    rx.stage = "confirm" =>
        LET hdr == Unwrap(rx.hdr)
            msg == Unwrap(rx.msg)
        IN  IF msg.tag \notin {144, 128}
            THEN /\ built.receiver = hdr.sender
                 /\ built.data = <<128, 1>> \o hdr.msg_id
                 /\ Len(out) <= 2
                 /\ result.status = "Ok" =>
                      /\ Len(out) = 2 /\ IsSome(out[2].box)
                      /\ LET sent == Unwrap(out[2].box).pt
                             pkt  == PacketDeserialize(sent.bytes)
                         IN  /\ IsSome(pkt) /\ Unwrap(pkt).v.tag = 1
                             /\ Unwrap(pkt).v.f[1].receiver = hdr.sender
                             /\ IsSome(sent.ct)
                             /\ Unwrap(sent.ct).pt = built.padded
                             /\ Unwrap(sent.ct).keys = {peers[hdr.sender], private_key}
            ELSE /\ built = NoBuilt
                 /\ Len(out) = 1
                 /\ ReturnedFrom("receive", "Ok")

\* C9 witness: receive() has returned a text message and the frame after the
\* ack carries the receipt for it.
C9_Witness ==
    /\ ReturnedFrom("receive", "Ok")
    /\ rx.stage = "confirm"
    /\ Unwrap(rx.msg).tag = 1
    /\ Completed(out) = 2
    /\ built.data = <<128, 1>> \o Unwrap(rx.hdr).msg_id

\* C10: whenever receive() is past the ack of a delivery, the first and only
\* ack frame it wrote is u32_le(0x82), header.sender, header.msg_id with no
\* end-to-end part, whatever became of the inner envelope; and the step that
\* writes the ack looks up no key and opens nothing.
C10_AckFirstAndOnce ==
    /\ []((rx.stage \in {"open", "confirm"} \/ pc \in {"open", "confirm"})
            => /\ Len(out) >= 1 /\ IsSome(out[1].box)
               /\ Unwrap(out[1].box).pt.bytes
                    = <<130, 0, 0, 0>> \o Unwrap(rx.hdr).sender \o Unwrap(rx.hdr).msg_id
               /\ IsNone(Unwrap(out[1].box).pt.ct)
               /\ \A i \in 2..Len(out) :
                    IsSome(out[i].box) => Take(Unwrap(out[i].box).pt.bytes, 4) # <<130, 0, 0, 0>>)
    /\ [][pc = "send_ack"
            => /\ peers' = peers
               /\ IsNone(rx'.plain) /\ IsNone(rx'.msg)
               /\ pc' \in {"open", "returned"}]_vars
    /\ [][pc' = "open" => pc = "send_ack" /\ Completed(out') = Completed(out) + 1]_vars

\* C10 witness: receive() has returned DecryptionFailed for the inner envelope
\* of a delivery, and the ack for it is on the wire.
C10_Witness ==
    /\ ReturnedFrom("receive", "DecryptionFailed")
    /\ rx.stage = "open"
    /\ Completed(out) = 1

\* C11: receive() returns Ok only with a decoded delivery; a server ack (0x81)
\* or a ConnectionEstablished (0xd0) that was read and parsed leaves receive()
\* in its loop without a result, writes no frame, and the next step of the
\* call is the next read.
C11_OnlyDeliveriesReturn ==
    /\ [](ReturnedFrom("receive", "Ok")
            => rx.stage = "confirm" /\ IsSome(rx.plain) /\ IsSome(rx.msg))
    /\ [][(/\ pc \in {"idle", "receive"}
           /\ result'.op = "receive"
           /\ attempts' = attempts
           /\ opened' # opened
           /\ IsSome(rx'.payload)
           /\ Take(Unwrap(rx'.frame).pt.bytes, 4) \in {<<129, 0, 0, 0>>, <<208, 0, 0, 0>>})
            => /\ pc' = "receive"
               /\ result'.status = "running"
               /\ out' = out
               /\ client_nonce' = client_nonce]_vars
    /\ [][pc = "receive" => rx'.stage = "packet" /\ out' = out]_vars

\* C11 witness: receive() has consumed a server ack and is back at the head of
\* its loop.
C11_Witness ==
    /\ pc = "receive"
    /\ IsSome(rx.frame)
    /\ Take(Unwrap(rx.frame).pt.bytes, 4) = <<129, 0, 0, 0>>
    /\ out = << >>

\* C12: a DuplicateConnection packet (0xe0) that receive() has read ends the
\* call with the error Disconnected.
C12_DuplicateConnectionDisconnects ==
    (/\ result.op = "receive"
     /\ rx.stage = "packet"
     /\ IsSome(rx.payload)
     /\ Unwrap(rx.frame).pt.bytes = <<224, 0, 0, 0>>)
      => pc = "returned" /\ result.status = "Disconnected"

\* C13: a frame that opened with a packet tag outside the table (here 3), and
\* a delivery whose body has a message tag outside the table (here 0x7f), are
\* skipped: receive() has no error for them and is not ended by them.
C13_UnknownTagsAreSkipped ==
    /\ (/\ result.op = "receive"
        /\ rx.stage = "packet"
        /\ IsSome(rx.frame)
        /\ result.status # "DecryptionFailed"
        /\ Unwrap(rx.frame).pt.bytes = <<3, 0, 0, 0>>)
         => pc = "receive" /\ result.status = "running"
    /\ (/\ rx.stage = "open"
        /\ rx.plain = Some(<<127, 1>>))
         => pc \notin {"returned", "panicked"} /\ result.status = "running"

\* C14: when the inner envelope of a delivery does not open or its body does
\* not parse, receive() returns the error, the step changes nothing in the
\* session, and the session is connected with the server counter one past the
\* counter of the frame and the client counter one past the counter of the ack.
C14_InnerFailureKeepsSession ==
    /\ [][(pc = "open" /\ result'.status \in {"DecryptionFailed", "ParseError"})
            => session' = session /\ pc' = "returned"]_vars
    /\ []((rx.stage = "open" /\ result.status \in {"DecryptionFailed", "ParseError"})
            => /\ pc = "returned"
               /\ IsSome(conn)
               /\ Unwrap(rx.frame).nonce =
                      Unwrap(server_nonce).prefix
                        \o <<Counter(server_nonce) - 1, 0, 0, 0, 0, 0, 0, 0>>
               /\ Len(out) = 1 /\ IsSome(out[1].box)
               /\ Unwrap(out[1].box).nonce =
                      Unwrap(client_nonce).prefix
                        \o <<Counter(client_nonce) - 1, 0, 0, 0, 0, 0, 0, 0>>)

\* C14 witness: receive() has returned a message on a connection on which an
\* earlier delivery failed to open or to parse.
C14_Witness ==
    /\ innerFailed
    /\ ReturnedFrom("receive", "Ok")
    /\ Counter(server_nonce) = 5

\* C15: a cache entry is never removed or replaced; the directory is asked
\* only for an identity without an entry; an answer with a key adds exactly
\* that entry, any other answer adds nothing; without a request the cache does
\* not change; and an end-to-end body is sealed for the key the cache holds.
C15_PeerKeyCache ==
    /\ [][\A p \in DOMAIN peers : p \in DOMAIN peers' /\ peers'[p] = peers[p]]_vars
    /\ [][IF Len(dir') = Len(dir) + 1
          THEN LET a == dir'[Len(dir')]
               IN  /\ a.peer \notin DOMAIN peers
                   /\ IF a.kind = "key"
                      THEN /\ DOMAIN peers' = DOMAIN peers \cup {a.peer}
                           /\ peers'[a.peer] = a.key
                      ELSE peers' = peers
          ELSE peers' = peers /\ Len(dir') <= Len(dir)]_vars
    /\ []((/\ built # NoBuilt
           /\ out # << >>
           /\ IsSome(out[Len(out)].box)
           /\ IsSome(Unwrap(out[Len(out)].box).pt.ct))
            => /\ built.receiver \in DOMAIN peers
               /\ Unwrap(Unwrap(out[Len(out)].box).pt.ct).keys
                    = {peers[built.receiver], private_key})

\* C15 witness: a message went out to a peer whose key was in the cache; the
\* directory was not asked.
C15_Witness ==
    /\ ReturnedFrom("send_text_message", "Ok")
    /\ dir = << >>
    /\ built.receiver = PeerB
    /\ peers[PeerB] = 9

\* C16: when the directory request for the receiver fails, send_text_message
\* returns RequestError, has written nothing, and the session goes on.
C16_LookupFailureIsRequestError ==
    (/\ result.op = "send_text_message"
     /\ Len(dir) = 1
     /\ dir[1].kind = "error")
      => /\ pc = "returned"
         /\ result.status = "RequestError"
         /\ out = << >>

\* the discriminants a reader of "previous + 1, 0 for a first variant" expects
RECURSIVE ClaimedDiscriminants(_, _)
ClaimedDiscriminants(vs, previous) ==
    IF Len(vs) = 0 THEN << >>
    ELSE LET d == IF IsSome(vs[1].disc) THEN Unwrap(vs[1].disc) ELSE previous + 1
         IN  << d >> \o ClaimedDiscriminants(Tail(vs), d)

\* C17: for every schema type built from primitives, booleans, fixed arrays,
\* records and tagged unions and every valid value v of it,
\* deserialize_with_size(serialize(v)) returns v together with a consumed
\* count equal to the length of serialize(v).
C17_RoundTrip ==
    (codec.pc = "deserialized" /\ codec.mode = "value" /\ ~codec.cut)
        => /\ codec.out.tag = "Some"
           /\ codec.out.size = Len(codec.bytes)
           /\ codec.out.v = CodecInputs[codec.input].value

\* C18: removing the last byte of serialize(v) makes deserialization return
\* None, for every schema value v, Message::Text with its to-the-end payload
\* included; it never succeeds with a different value.
C18_TruncatedFails ==
    (codec.pc = "deserialized" /\ codec.mode = "value" /\ codec.cut)
        => codec.out.tag = "None"

\* C19: deserializing a tagged union from input shorter than the tag width, or
\* whose tag equals no variant's discriminant, returns None and never aborts;
\* for the test enum Foo with discriminants 1, 3, 4 the inputs [], [0] and [5]
\* all fail.
C19_UnknownTagIsNone ==
    codec.pc = "deserialized" =>
        /\ (/\ CodecSchema.kind = "enum"
            /\ \/ Len(codec.bytes) < CodecSchema.repr
               \/ \A i \in 1..Len(CodecSchema.variants) :
                    Discriminants(CodecSchema.variants)[i]
                        # FromLE(Take(codec.bytes, CodecSchema.repr)))
             => codec.out.tag = "None"
        /\ (codec.mode = "raw" /\ codec.input \in 1..3)
             => /\ RawInputs[codec.input].schema.kind = "enum"
                /\ RawInputs[codec.input].schema.repr = 1
                /\ Len(RawInputs[codec.input].schema.variants) = 3
                /\ codec.bytes \in {<< >>, << 0 >>, << 5 >>}
                /\ codec.out.tag = "None"
        /\ (/\ codec.mode = "raw" /\ codec.input \in 4..12
            /\ Len(codec.bytes) >= 1 /\ codec.bytes[1] \notin {1, 3, 4})
             => codec.out.tag = "None"

\* C19 witness: Foo::deserialize(&[5]) has run and has returned None.
C19_Witness ==
    /\ codec.pc = "deserialized"
    /\ codec.mode = "raw"
    /\ codec.input = 3
    /\ codec.bytes = << 5 >>
    /\ codec.out.tag = "None"

\* C20: a variant without an explicit discriminant is written with the
\* previous variant's discriminant plus 1, and with 0 when it is the first
\* variant; deserialize reads the same number back as the same variant.
C20_ImplicitDiscriminants ==
    (/\ codec.mode = "value"
     /\ ~codec.cut
     /\ codec.pc \in {"serialized", "deserialized"}
     /\ CodecSchema.kind = "enum"
     /\ IsNone(CodecSchema.variants[CodecInputs[codec.input].value.variant].disc))
        => /\ FromLE(Take(codec.bytes, CodecSchema.repr))
                = ClaimedDiscriminants(CodecSchema.variants, 0 - 1)
                      [CodecInputs[codec.input].value.variant]
           /\ codec.pc = "deserialized"
                => /\ codec.out.tag = "Some"
                   /\ codec.out.v.variant = CodecInputs[codec.input].value.variant

\* a value none of whose parts is a to-the-end payload
RECURSIVE FixedLayout(_, _)
FixedLayout(t, v) ==
    CASE t.kind = "text" -> FALSE
      [] t.kind = "array" -> \A i \in 1..t.n : FixedLayout(t.elem, v[i])
      [] t.kind = "struct" -> \A i \in 1..Len(t.fields) : FixedLayout(t.fields[i], v[i])
      [] t.kind = "enum" ->
           \A i \in 1..Len(t.variants[v.variant].fields) :
               FixedLayout(t.variants[v.variant].fields[i], v.f[i])
      [] OTHER -> TRUE

\* the byte strings of a sequence one after the other
RECURSIVE Concat(_)
Concat(ss) == IF Len(ss) = 0 THEN << >> ELSE ss[1] \o Concat(Tail(ss))

\* C21: for every fixed-layout schema value v and every byte string t,
\* deserialize_with_size(serialize(v) ++ t) succeeds with value v and consumed
\* count len(serialize(v)), so that exactly t is left over; trailing bytes are
\* never an error and never change the decoded value.
C21_TrailingBytesAreLeft ==
    (/\ codec.pc = "deserialized"
     /\ codec.mode = "trailing"
     /\ FixedLayout(CodecInputs[codec.input].schema, CodecInputs[codec.input].value))
        => /\ codec.out.tag = "Some"
           /\ codec.out.v = CodecInputs[codec.input].value
           /\ Drop(codec.bytes, codec.out.size) \in Tails
           /\ codec.out.size
                = Len(FlatSerialize(CodecInputs[codec.input].schema,
                                    CodecInputs[codec.input].value))

\* C22: serializing [T; N] yields the concatenation of the N serialized
\* elements, and deserializing it reads each element where the previous one
\* ended: it returns the N elements and a consumed count equal to the total
\* serialized length.
C22_ArrayIsConcatenation ==
    (/\ codec.pc \in {"serialized", "deserialized"}
     /\ codec.mode = "value"
     /\ ~codec.cut
     /\ CodecSchema.kind = "array")
        => /\ codec.bytes
                = Concat([i \in 1..CodecSchema.n |->
                            FlatSerialize(CodecSchema.elem, CodecInputs[codec.input].value[i])])
           /\ codec.pc = "deserialized"
                => /\ codec.out.tag = "Some"
                   /\ codec.out.v = CodecInputs[codec.input].value
                   /\ codec.out.size = Len(codec.bytes)

\* the backup string as the decoder is said to read it: '-' removed, upper
\* case, 0 as O and 1 as I
RECURSIVE ClaimedNormal(_)
ClaimedNormal(str) ==
    IF Len(str) = 0 THEN << >>
    ELSE IF str[1] = "-" THEN ClaimedNormal(Tail(str))
    ELSE LET u == IF \E i \in 1..26 : LowerLetters[i] = str[1]
                  THEN UpperLetters[CHOOSE i \in 1..26 : LowerLetters[i] = str[1]]
                  ELSE str[1]
         IN  << IF u = "0" THEN "O" ELSE IF u = "1" THEN "I" ELSE u >>
               \o ClaimedNormal(Tail(str))

\* the 5-bit alphabet indices of a normalized string
ClaimedIndices(norm) ==
    [i \in 1..Len(norm) |-> (CHOOSE k \in 1..32 : Base32Alphabet[k] = norm[i]) - 1]

\* bit j (from 0) of the indices written one after the other, the most
\* significant bit of each first
ClaimedBit(idx, j) ==
    (idx[(j \div 5) + 1] \div
        (CASE j % 5 = 0 -> 16 [] j % 5 = 1 -> 8 [] j % 5 = 2 -> 4 [] j % 5 = 3 -> 2
           [] OTHER -> 1)) % 2

\* the MSB-first packing of the indices into floor(5n/8) bytes
ClaimedPacking(idx) ==
    [k \in 1..((5 * Len(idx)) \div 8) |->
        128 * ClaimedBit(idx, 8 * (k - 1)) + 64 * ClaimedBit(idx, 8 * (k - 1) + 1)
      + 32 * ClaimedBit(idx, 8 * (k - 1) + 2) + 16 * ClaimedBit(idx, 8 * (k - 1) + 3)
      + 8 * ClaimedBit(idx, 8 * (k - 1) + 4) + 4 * ClaimedBit(idx, 8 * (k - 1) + 5)
      + 2 * ClaimedBit(idx, 8 * (k - 1) + 6) + ClaimedBit(idx, 8 * (k - 1) + 7)]

\* C24: the backup decoder removes '-', upper-cases, maps '0' to 'O' and '1'
\* to 'I', fails if any remaining character is outside
\* ABCDEFGHIJKLMNOPQRSTUVWXYZ234567, and otherwise returns for n characters
\* exactly floor(5n/8) bytes, the MSB-first packing of the characters' 5-bit
\* alphabet indices.
C24_Base32Decoding ==
    (calc.pc = "done" /\ calc.op = "base32") =>
        LET norm == ClaimedNormal(calc.input)
        IN  /\ (\E i \in 1..Len(norm) : \A k \in 1..32 : Base32Alphabet[k] # norm[i])
                 => calc.out.tag = "None"
            /\ (\A i \in 1..Len(norm) : \E k \in 1..32 : Base32Alphabet[k] = norm[i])
                 => /\ calc.out.tag = "Some"
                    /\ Len(calc.out.v) = (5 * Len(norm)) \div 8
                    /\ calc.out.v = ClaimedPacking(ClaimedIndices(norm))
            /\ calc.input = << "m", "z", "x", "w", "-", "6", "y", "t", "b" >>
                 => calc.out = [tag |-> "Some", v |-> << 102, 111, 111, 98, 97 >>]

\* C24 witness: a string with a dash, lower case, a 0 and a 1 was decoded to
\* 5 bytes or more.
C24_Witness ==
    /\ calc.pc = "done"
    /\ calc.op = "base32"
    /\ calc.input = << "0", "1", "o", "i", "-", "7", "7", "7", "7", "2" >>
    /\ calc.out.tag = "Some"
    /\ Len(calc.out.v) = 5

\* C23: for every backup string and password, Threema::from_backup either
\* succeeds or fails with the single error kind InvalidBackupOrPassword, also
\* for characters outside the alphabet, for decoded data that is too short,
\* for a check value that does not match and for a recovered identity that is
\* not a valid identity; no input aborts the process.
C23_BackupFailsWithOneKind ==
    calc.op = "from_backup" =>
        /\ calc.pc # "panicked"
        /\ calc.pc = "done" => calc.out.tag \in {"Ok", "InvalidBackupOrPassword"}

\* C25: for every payload given to send, the two-byte little-endian length
\* prefix written on the wire equals the number of sealed bytes written after
\* it, payload length + 16.
C25_PrefixIsSealedLength ==
    (calc.pc = "done" /\ calc.op = "send")
        => /\ calc.out.sealed = calc.input + 16
           /\ calc.out.prefix[1] + 256 * calc.out.prefix[2] = calc.out.sealed

\* a < b for two numbers given as bytes, least significant first
RECURSIVE LessLE(_, _)
LessLE(a, b) ==
    IF Len(a) = 0 THEN FALSE
    ELSE \/ a[Len(a)] < b[Len(b)]
         \/ a[Len(a)] = b[Len(b)] /\ LessLE(Take(a, Len(a) - 1), Take(b, Len(b) - 1))

\* C28: as_bytes() of a Nonce is the 16-byte prefix followed by the counter as
\* 8 little-endian bytes, the counter of a new Nonce is 1, and the as_bytes()
\* values before and after inc() differ only in the last 8 bytes, which grow
\* strictly, for every counter value including the largest 64-bit one.
C28_NonceBytesGrow ==
    /\ NonceAsBytes(NonceNew(Rep(PREFIXLEN, 7))) = Rep(PREFIXLEN, 7) \o << 1, 0, 0, 0, 0, 0, 0, 0 >>
    /\ calc.op = "nonce_inc"
         => /\ calc.pc # "panicked"
            /\ Len(calc.out.before) = 24 /\ Len(calc.out.after) = 24
            /\ Take(calc.out.before, 16) = Take(calc.out.after, 16)
            /\ LessLE(Drop(calc.out.before, 16), Drop(calc.out.after, 16))

\* C26: a send_text_message(receiver, text) that returns on a connected
\* session has submitted exactly one transport frame: its payload is the tag
\* 01 00 00 00, then the 88 header bytes with the own identity as sender, the
\* given receiver and flags 1, then a ciphertext of 1 + len(text) + pad + 16
\* bytes; the call returns the message id written into that header.
C26_TextMessageFrame ==
    ReturnedFrom("send_text_message", "Ok") =>
        /\ Len(out) = 1
        /\ IsSome(out[1].box)
        /\ LET sent == Unwrap(out[1].box).pt
           IN  /\ Len(sent.bytes) = 4 + 88
               /\ Take(sent.bytes, 4) = << 1, 0, 0, 0 >>
               /\ SubSeq(sent.bytes, 5, 12) = << 65, 65, 65, 65, 65, 65, 65, 65 >>
               /\ SubSeq(sent.bytes, 13, 20) = built.receiver
               /\ SubSeq(sent.bytes, 21, 28) = result.val[1]
               /\ SubSeq(sent.bytes, 33, 36) = << 1, 0, 0, 0 >>
               /\ IsSome(sent.ct)
               /\ built.data[1] = 1
               /\ Drop(built.data, 1) \in Texts
               /\ built.pad \in 0..31
               /\ Len(Unwrap(sent.ct).pt) + 16 = 1 + Len(Drop(built.data, 1)) + built.pad + 16

\* C26 witness: send_text_message(B, "hi") has returned the message id
\* ff..ff after a frame with a pad of 1.
C26_Witness ==
    /\ ReturnedFrom("send_text_message", "Ok")
    /\ built.receiver = PeerB
    /\ built.data = << 1, 104, 105 >>
    /\ built.pad = 1
    /\ result.val = << Rep(IDLEN, 255) >>
    /\ Completed(out) = 1

\* the counters of the seals made so far under the key of the connection
SealedCounters == {s.counter : s \in {x \in sealed : x.key = Unwrap(ephemeral_private_key)}}

\* C27: every frame a call submits to the socket after the handshake is
\* appended behind the frames written before it and is sealed under a client
\* counter greater than the counter of every earlier seal of the connection,
\* by exactly one over the greatest of them; and a receive() that has returned
\* a delivery that is neither a TypingNotification nor a DeliveryReceipt has
\* written exactly two frames, the ack first and the receipt second.
C27_FramesInOrderUnderConsecutiveCounters ==
    /\ [][(attempts' = attempts /\ sealed' # sealed)
            => /\ \A c \in SealedCounters : c < Counter(client_nonce)
               /\ SealedCounters # {} => Counter(client_nonce) - 1 \in SealedCounters
               /\ Len(out') >= Len(out) => Take(out', Len(out)) = out]_vars
    /\ [][(attempts' = attempts /\ sealReuse') => sealReuse]_vars
    /\ []((ReturnedFrom("receive", "Ok") /\ rx.stage = "confirm"
             /\ Unwrap(rx.msg).tag \notin {144, 128})
            => /\ Len(out) = 2 /\ IsSome(out[1].box) /\ IsSome(out[2].box)
               /\ Take(Unwrap(out[1].box).pt.bytes, 4) = << 130, 0, 0, 0 >>
               /\ Take(Unwrap(out[2].box).pt.bytes, 4) = << 1, 0, 0, 0 >>
               /\ Unwrap(out[2].box).nonce = NonceAsBytes([Unwrap(client_nonce) EXCEPT !.counter = @ - 1])
               /\ Unwrap(out[1].box).nonce = NonceAsBytes([Unwrap(client_nonce) EXCEPT !.counter = @ - 2]))

\* the tags of the packet variants in declaration order: EchoRequest,
\* EchoReply, ClientToServer, ServerToClient, ServerAck, ClientAck,
\* ConnectionEstablished, DuplicateConnection, Alert
PacketTags == << 0, 128, 1, 2, 129, 130, 208, 224, 225 >>

\* the packets handed to serialize and the byte strings decoded as packets
PacketValues == (33..36) \cup (44..48)
PacketRaws == (19..25) \cup (38..50)

\* C29: the nine packet tags differ from one another; serializing a packet
\* writes the tag of its variant as 4 little-endian bytes, decoding those
\* bytes gives that variant back, and whenever decoding a byte string as a
\* packet succeeds the variant is the one whose tag the first 4 bytes hold.
C29_PacketTagsExclusive ==
    /\ \A i, j \in 1..9 : i # j => PacketTags[i] # PacketTags[j]
    /\ (codec.mode = "value" /\ codec.input \in PacketValues /\ ~codec.cut
          /\ codec.pc \in {"serialized", "deserialized"})
         => Take(codec.bytes, 4) = U32LE(PacketTags[CodecInputs[codec.input].value.variant])
    /\ (codec.mode = "value" /\ codec.input \in PacketValues /\ ~codec.cut
          /\ codec.pc = "deserialized")
         => /\ codec.out.tag = "Some"
            /\ codec.out.v.variant = CodecInputs[codec.input].value.variant
    /\ (codec.mode = "raw" /\ codec.input \in PacketRaws /\ codec.pc = "deserialized"
          /\ codec.out.tag = "Some")
         => /\ Len(codec.bytes) >= 4
            /\ FromLE(Take(codec.bytes, 4)) = PacketTags[codec.out.v.variant]
            /\ \A k \in 1..9 :
                 PacketTags[k] = FromLE(Take(codec.bytes, 4)) => k = codec.out.v.variant

\* C29 witness: a ClientAck has been serialized behind the tag 82 00 00 00
\* and decoded back as a ClientAck.
C29_Witness ==
    /\ codec.pc = "deserialized"
    /\ codec.mode = "value"
    /\ codec.input = 34
    /\ ~codec.cut
    /\ Take(codec.bytes, 4) = << 130, 0, 0, 0 >>
    /\ codec.out.tag = "Some"
    /\ codec.out.v.variant = 6

\* the bytes A-Z and 0-9
IdentityBytes == (65..90) \cup (48..57)

\* where the byte strings decoded as ack packets, as headers of deliveries
\* and as bare identities hold their identities
IdentityRanges ==
    [i \in (41..42) \cup (47..53) |->
        IF i \in {41, 42, 47, 48} THEN {5..12}
        ELSE IF i \in {49, 50} THEN {5..12, 13..20}
        ELSE {1..8}]

\* C30: ThreemaID::from_slice accepts exactly the strings of 8 bytes from A-Z
\* and 0-9, and decoding an ack packet, the header of a delivery or a bare
\* identity fails when one of the identities in it has a byte outside A-Z and
\* 0-9.
C30_IdentitiesInAlphabet ==
    /\ \A b \in {PeerB, Rep(8, 48), Rep(8, 90), Rep(8, 97), Rep(8, 0), Rep(7, 65),
                 Rep(9, 65), << >>, << 65, 66, 67, 68, 69, 70, 71, 32 >>} :
         IsSome(ThreemaIDFromSlice(b))
            <=> (Len(b) = 8 /\ \A k \in 1..Len(b) : b[k] \in IdentityBytes)
    /\ (codec.pc = "deserialized" /\ codec.mode = "raw" /\ codec.input \in DOMAIN IdentityRanges)
         => ((\E r \in IdentityRanges[codec.input] :
                \E k \in r : k > Len(codec.bytes) \/ codec.bytes[k] \notin IdentityBytes)
               => codec.out.tag = "None")

\* C31: a send_text_message, receive_packet or receive called on a session
\* without a connection returns NotConnected, writes no frame and asks the
\* directory nothing, and leaves the nonces, the keys, the connection and the
\* cache of peer keys as they were.
C31_NotConnectedChangesNothing ==
    [][(pc = "idle" /\ IsNone(conn) /\ attempts' = attempts /\ pc' # "idle")
         => /\ result'.op \in {"send_text_message", "receive_packet", "receive"}
            /\ result'.status = "NotConnected"
            /\ pc' = "returned"
            /\ out' = << >>
            /\ dir' = dir
            /\ peers' = peers
            /\ UNCHANGED session]_vars

\* C32: in every state the client nonce, the server nonce, the server's
\* ephemeral public key, the ephemeral secret key and the connection are all
\* unset or all set, and a step sets or replaces one of them only when it is
\* the connect() that got through all nine stages and verified the ack of 16
\* zero bytes; every other step leaves the keys and the connection alone and
\* the nonces set or unset as they were.
C32_ConnectionFieldsTogether ==
    /\ [](\/ /\ client_nonce = << >> /\ server_nonce = << >> /\ server_pubkey = << >>
             /\ ephemeral_private_key = << >> /\ conn = << >>
          \/ /\ client_nonce # << >> /\ server_nonce # << >> /\ server_pubkey # << >>
             /\ ephemeral_private_key # << >> /\ conn # << >>)
    /\ [][(\/ conn' # conn
           \/ server_pubkey' # server_pubkey
           \/ ephemeral_private_key' # ephemeral_private_key
           \/ (client_nonce = << >>) # (client_nonce' = << >>)
           \/ (server_nonce = << >>) # (server_nonce' = << >>))
            => /\ result'.op = "connect" /\ result'.status = "Ok"
               /\ result'.val = << 9 >>
               /\ handshake'.ack = << 0, 0, 0, 0, 0, 0, 0, 0, 0, 0, 0, 0, 0, 0, 0, 0 >>
               /\ conn' # << >>]_vars
    /\ [][(result'.op = "connect" /\ result'.status # "Ok" /\ attempts' # attempts)
            => UNCHANGED session]_vars

\* C32 witness: connect() has returned Ok after the ack of 16 zero bytes and
\* the five fields are set.
C32_Witness ==
    /\ ReturnedFrom("connect", "Ok")
    /\ handshake.ack = << 0, 0, 0, 0, 0, 0, 0, 0, 0, 0, 0, 0, 0, 0, 0, 0 >>
    /\ client_nonce # << >> /\ server_nonce # << >> /\ server_pubkey # << >>
    /\ ephemeral_private_key # << >> /\ conn # << >>

\* C33: for every message body and every pad from 0 to 31, stripping the
\* padding of the padded body gives the body back, and decoding it gives the
\* message that was serialized.
C33_PaddingRoundTrips ==
    calc.op = "pad_strip" =>
        /\ calc.pc = "done"
        /\ calc.out.stripped = << calc.input.data >>
        /\ calc.out.msg # << >>
        /\ calc.out.msg[1].size = Len(calc.input.data)
        /\ calc.input.data[1] = 1 =>
             calc.out.msg[1].v.f = << SubSeq(calc.input.data, 2, Len(calc.input.data)) >>

\* C34: with two sessions in a receive() loop, every session has sent at most
\* one receipt per user message of the other session, both sessions together
\* have written at most four frames per user message (the message, its ack by
\* the receiver, the receipt, its ack by the sender), and a turn of the loop
\* that handled a delivery receipt or a packet other than a delivery sent no
\* end-to-end message.
C34_NoReceiptLoop ==
    /\ net.receipts[1] <= net.user[2]
    /\ net.receipts[2] <= net.user[1]
    /\ net.frames[1] + net.frames[2] <= 4 * (net.user[1] + net.user[2])
    /\ net.last.kind \in {"receipt", "packet", "typing", "panic", "ParseError"}
         => net.last.sent = 0

\* C34 witness: both user messages are sent, session 2 has answered with a
\* receipt, session 1 has read that receipt, and nothing is left to read.
C34_Witness ==
    /\ net.user = << 2, 0 >>
    /\ net.receipts[2] >= 1
    /\ net.last = [client |-> 1, kind |-> "receipt", sent |-> 0]
    /\ net.inbox = << << >>, << >> >>

\* the reads and writes of a complete handshake: the hello of 32 + 16 bytes,
\* the server prefix of 16 and the sealed reply of 64 bytes, the sealed login
\* of 144 bytes, the sealed ack of 32 bytes
FullHandshake ==
    << [dir |-> "write", len |-> 32], [dir |-> "write", len |-> 16],
       [dir |-> "read", len |-> 16], [dir |-> "read", len |-> 64],
       [dir |-> "write", len |-> 144], [dir |-> "read", len |-> 32] >>

\* C35: what a connect() has written and read is always a beginning of: hello
\* (32 then 16 bytes) written, server prefix (16) and sealed reply (64) read,
\* sealed login (144) written, sealed ack (32) read; a connect() that returns
\* Ok has done all six in that order; connect() itself writes and reads no
\* length-framed frame, and a frame is written or read only on a session
\* whose connect() has verified the ack.
C35_HandshakeOrder ==
    /\ [](\E n \in 0..6 : handshake.wire = SubSeq(FullHandshake, 1, n))
    /\ [](ReturnedFrom("connect", "Ok") => handshake.wire = FullHandshake)
    /\ [](result.op = "connect" => (out = << >> /\ rx.frame = << >>))
    /\ [][((out' # out /\ out' # << >>) \/ (rx' # rx /\ rx'.frame # << >>))
            => (conn # << >> /\ attempts' = attempts)]_vars

\* C35 witness: a connect() has returned Ok with the six reads and writes of
\* the handshake behind it and no frame written.
C35_Witness ==
    /\ ReturnedFrom("connect", "Ok")
    /\ handshake.wire = FullHandshake
    /\ result.val = << 9 >>
    /\ out = << >>

====
